---- MODULE Spec2Model ----
(***************************************************************************)
(* Vulkan state rebuilder of gapid (gapis/api/vulkan state_rebuilder):     *)
(* RebuildState walks a snapshot of the Vulkan object graph (the old       *)
(* State) and emits the commands that recreate it in a new state.          *)
(*                                                                         *)
(* Four specifications share the variables below:                          *)
(*   Spec           RebuildState on a bounded family of snapshots          *)
(*   SpecPipelines  GetPipelinesInOrder called on bounded pipeline tables  *)
(*                  (FairSpecPipelines adds the fairness of a running      *)
(*                  goroutine)                                             *)
(*   SpecBound      IsFullyBound applied to bounded binding sets           *)
(*   SpecCalls      the size computations and the choice of a priming      *)
(*                  strategy, each called on bounded arguments             *)
(***************************************************************************)
EXTENDS Integers, Sequences, FiniteSets, TLC

VARIABLES
  s,                  \* the old State (snapshot): per-category tables
  compute,            \* GetPipelinesInOrder: argument `compute`
  pipelines,          \* GetPipelinesInOrder: result slice
  unhandledPipelines, \* GetPipelinesInOrder: map handle -> base handle
  handledPipelines,   \* GetPipelinesInOrder: set of handled handles
  numHandled,         \* GetPipelinesInOrder: counter
  iter,               \* keys the running `range unhandledPipelines` has yet to visit
  rpc,                \* GetPipelinesInOrder: position ("idle","loop","range","done")
  caller,             \* who called GetPipelinesInOrder ("direct" or "RebuildState")
  bnd,                \* IsFullyBound: [offset, size, bindings, called, result]
  fcall,              \* a function of the builder called on its own: [fn, in, out]
  peer,               \* a second RebuildState call on the same State, while it is not running
  stage,              \* RebuildState: the stage it is in (0 before the first)
  todo,               \* RebuildState: the keys the loop of the stage has yet to visit
  stack,              \* the call stack below RebuildState: frames [fn, pc, l]
  cur,                \* the command whose arguments are evaluated and write not yet called
  sb                  \* the stateBuilder, with the new state and its allocator

----------------------------------------------------------------------------
(* Bounds of the model *)

\* largest pipeline handle of a pipeline table handed to GetPipelinesInOrder
MaxPipelines == 3
\* largest resource offset of a sparse binding, and of a queried offset
MaxOffset == 5
\* largest size of a sparse binding, and of a queried size
MaxSize == 3
\* largest number of sparse bindings of one resource
MaxBindings == 3
\* largest number of deviations of a snapshot from the plain one
MaxDeviations == 1
\* largest length of the data handed to allocAndFillScratchBuffer
MaxPayload == 600
\* largest width, height and depth of a mip level, in texel blocks
MaxWidth == 67
MaxHeight == 10
MaxDepth == 2
\* largest number of array layers of a sparse image
MaxLayers == 2
\* number of ranges inserted into an interval list, and of requests made
\* for the initial commands of one capture
MaxInserts == 3

----------------------------------------------------------------------------
(* Helpers for Go values *)

Min(S) == CHOOSE x \in S : \A y \in S : x <= y

Max(S) == CHOOSE x \in S : \A y \in S : x >= y

RECURSIVE SortedKeys(_)
\* Keys() of a generated map type: the keys in increasing order
SortedKeys(S) == IF S = {} THEN <<>> ELSE <<Min(S)>> \o SortedKeys(S \ {Min(S)})

Keys(m) == SortedKeys(DOMAIN m)

Range(q) == {q[i] : i \in 1..Len(q)}

\* every order in which a Go `range` over the key set S may visit it
Orders(S) == {q \in [1..Cardinality(S) -> S] : Range(q) = S}

NoDup(q) == \A i, j \in 1..Len(q) : i # j => q[i] # q[j]

\* position of x in q (0 when absent)
IndexOf(q, x) == IF \E i \in 1..Len(q) : q[i] = x
                 THEN CHOOSE i \in 1..Len(q) : q[i] = x ELSE 0

EmptyMap == [x \in {} |-> 0]

----------------------------------------------------------------------------
(* IsFullyBound *)

\* index (0-based, as in the code) of the first key beyond offset+size, or -1
OneAfterReqRange(resourceOffsets, offset, size) ==
  LET hits == {i \in 0..Len(resourceOffsets) - 1 : resourceOffsets[i + 1] > offset + size}
  IN IF hits = {} THEN -1 ELSE Min(hits)

RECURSIVE WalkBack_GapIgnored(_, _, _, _, _)
\* WalkBack with its gap test dropped: a binding that does not reach `end` is accepted
WalkBack_GapIgnored(resourceOffsets, bindings, offset, i, end) ==
  IF i > 0 /\ end > offset
  THEN WalkBack_GapIgnored(resourceOffsets, bindings, offset, i - 1, resourceOffsets[i + 1])
  ELSE IF end <= offset THEN TRUE
  ELSE IF i = 0
       THEN LET resOffset == resourceOffsets[1]
            IN resOffset <= offset
       ELSE FALSE

RECURSIVE WalkBack(_, _, _, _, _)
\* the backward walk `for i > 0 && end > offset` and the checks after it
WalkBack(resourceOffsets, bindings, offset, i, end) ==
  IF i > 0 /\ end > offset
  THEN LET resOffset == resourceOffsets[i + 1]
       IN IF resOffset + bindings[resOffset].Size >= end
          THEN WalkBack(resourceOffsets, bindings, offset, i - 1, resOffset)
          ELSE FALSE
  ELSE IF end <= offset THEN TRUE
  ELSE IF i = 0
       THEN LET resOffset == resourceOffsets[1]
            IN resOffset <= offset /\ resOffset + bindings[resOffset].Size >= end
       ELSE FALSE

IsFullyBound(offset, size, bindings) ==
  LET resourceOffsets == Keys(bindings)
      oneAfterReqRange == OneAfterReqRange(resourceOffsets, offset, size)
  IN IF oneAfterReqRange = -1 \/ oneAfterReqRange = 0
     THEN FALSE
     ELSE WalkBack(resourceOffsets, bindings, offset, oneAfterReqRange - 1, offset + size)

\* the binding sets drawn for IsFullyBound: U64:VkSparseMemoryBind maps
BindingSets ==
  UNION {[K -> [Size : 1..MaxSize]] :
           K \in {K \in SUBSET (0..MaxOffset) : Cardinality(K) <= MaxBindings}}

BndIdle == [offset |-> 0, size |-> 0, bindings |-> EmptyMap, called |-> FALSE, result |-> FALSE]

\* no function of the builder is called on its own
\* no second call
NoPeer == [stage |-> -1]

NoCall == [fn |-> "", args |-> EmptyMap, called |-> FALSE, result |-> EmptyMap]

\* a caller applies IsFullyBound to its arguments
CallIsFullyBound ==
  /\ ~bnd.called
  /\ bnd' = [bnd EXCEPT !.called = TRUE,
                        !.result = IsFullyBound(bnd.offset, bnd.size, bnd.bindings)]

----------------------------------------------------------------------------
(* GetPipelinesInOrder *)

\* the State tables GetPipelinesInOrder reads
PipelineTable(st, isCompute) ==
  IF isCompute THEN st.ComputePipelines ELSE st.GraphicsPipelines

\* lines 180-195: the locals before the loop
GetPipelinesInOrder_Enter(isCompute, from) ==
  /\ compute' = isCompute
  /\ caller' = from
  /\ pipelines' = <<>>
  /\ unhandledPipelines' =
       [p \in DOMAIN PipelineTable(s, isCompute) |->
          PipelineTable(s, isCompute)[p].BasePipeline]
  /\ handledPipelines' = {}
  /\ numHandled' = 0
  /\ iter' = {}
  /\ rpc' = "loop"

\* VisitPipeline with its base test dropped: a pipeline is handled whatever its base
VisitPipeline_IgnoreBase(k, v) == TRUE

\* lines 198-205: is the visited pipeline k with base v handled now?
VisitPipeline(k, v) == v = 0 \/ v \in handledPipelines

\* Handle with its delete dropped: the handled pipeline stays in the unhandled map
Handle_NoDelete(k) ==
  /\ pipelines' = Append(pipelines, k)
  /\ handledPipelines' = handledPipelines \cup {k}
  /\ unhandledPipelines' = unhandledPipelines
  /\ numHandled' = numHandled + 1

\* lines 200-210: append, mark, delete, count
Handle(k) ==
  /\ pipelines' = Append(pipelines, k)
  /\ handledPipelines' = handledPipelines \cup {k}
  /\ unhandledPipelines' = [p \in DOMAIN unhandledPipelines \ {k} |-> unhandledPipelines[p]]
  /\ numHandled' = numHandled + 1

\* line 196: the loop condition
GetPipelinesInOrder_Loop ==
  /\ rpc = "loop"
  /\ IF DOMAIN unhandledPipelines # {}
     THEN /\ rpc' = "range"
          /\ iter' = DOMAIN unhandledPipelines
     ELSE /\ rpc' = "done"
          /\ iter' = iter
  /\ UNCHANGED <<s, compute, pipelines, unhandledPipelines, handledPipelines,
                 numHandled, caller, bnd, fcall, peer, stage, todo, stack, cur, sb>>

\* lines 197-211: one iteration of `for k, v := range unhandledPipelines`
GetPipelinesInOrder_Range ==
  /\ rpc = "range"
  /\ \E k \in iter :
       /\ iter' = iter \ {k}
       /\ IF VisitPipeline(k, unhandledPipelines[k])
          THEN Handle(k)
          ELSE UNCHANGED <<pipelines, handledPipelines, unhandledPipelines, numHandled>>
  /\ UNCHANGED <<s, compute, rpc, caller, bnd, fcall, peer, stage, todo, stack, cur, sb>>

\* line 212: the test that ends the loop
Stalled == numHandled = 0

\* lines 212-221: after the range, emit the rest when nothing was handled
GetPipelinesInOrder_Check ==
  /\ rpc = "range"
  /\ iter = {}
  /\ IF Stalled
     THEN \E rest \in Orders(DOMAIN unhandledPipelines) :
            /\ pipelines' = pipelines \o rest
            /\ unhandledPipelines' = EmptyMap
            /\ rpc' = "done"
     ELSE /\ rpc' = "loop"
          /\ UNCHANGED <<pipelines, unhandledPipelines>>
  /\ UNCHANGED <<s, compute, handledPipelines, numHandled, iter, caller, bnd, fcall, peer, stage, todo, stack, cur, sb>>

----------------------------------------------------------------------------
(* stateBuilder: commands, allocations, write *)

\* an api.Cmd of the emitted stream: its Vulkan name, whether it creates or
\* destroys the objects `objs` of category `cat`, the handles of other
\* objects it names (`deps`, pairs <<category, handle>>), the base pipeline
\* handle of a pipeline creation, the device and the queue family of a
\* command pool creation, the byte size of a buffer creation or a memory
\* allocation, the read and write observations it carries (allocation ids)
\* and whether its Mutate succeeded
Cmd(name, kind, cat, objs, deps) ==
  [name |-> name, kind |-> kind, cat |-> cat, objs |-> objs, deps |-> deps,
   base |-> 0, device |-> 0, family |-> 0, size |-> 0,
   reads |-> <<>>, writes |-> <<>>, mutated |-> FALSE]

NoCmd == Cmd("", "none", "", {}, {})

Create(name, cat, objs, deps) == Cmd(name, "create", cat, objs, deps)

Destroy(name, cat, objs) == Cmd(name, "destroy", cat, objs, {})

Other(name, deps) == Cmd(name, "other", "", {}, deps)

\* a handle named by a command: VK_NULL_HANDLE names nothing
Dep(cat, h) == IF h = 0 THEN {} ELSE {<<cat, h>>}

\* the tables of a State
Categories ==
  {"Instances", "PhysicalDevices", "Surfaces", "Devices", "Queues", "Swapchains",
   "DeviceMemories", "Buffers", "Images", "Samplers", "Fences", "Semaphores",
   "Events", "CommandPools", "PipelineCaches", "DescriptorSetLayouts",
   "PipelineLayouts", "RenderPasses", "ShaderModules", "ComputePipelines",
   "GraphicsPipelines", "ImageViews", "BufferViews", "DescriptorPools",
   "Framebuffers", "DescriptorSets", "QueryPools", "CommandBuffers"}

\* api.NewStateWithAllocator: the new state holds no object; per category
\* the set of live handles, and the pool of every live command buffer
NewState == [c \in Categories \cup {"PoolOf"} |-> {}]


\* in place of a command: a Must* helper panicked while the arguments of
\* the command were evaluated, and the panic is unwinding
Exhausted == Cmd("AllocDataOrPanic", "panic", "none", {}, {})
\* the stateBuilder after construction: no command, nothing pending, and an
\* allocator with no live allocation (allocs: the live AllocResults;
\* nextId: the id of the next one; freed, doubleFrees: calls of Free() on a
\* live and on an already freed allocation; failed: allocations the
\* allocator could not serve; ranges: the Range() of every AllocResult
\* returned so far, by id, which the observations of the commands refer to)
NewBuilder ==
  [newState |-> NewState, cmds |-> <<>>, readMemories |-> <<>>, writeMemories |-> <<>>,
   memoryIntervals |-> <<>>, allocs |-> {}, nextId |-> 1, freed |-> 0, doubleFrees |-> 0,
   failed |-> 0, ranges |-> <<>>]

\* the allocator: the lowest base at which `size` bytes overlap no live range
FirstFit(live, size) ==
  Min({a \in {0} \cup {r.base + r.size : r \in live} :
         \A r \in live : a + size <= r.base \/ r.base + r.size <= a})

\* AllocDataOrPanic: a fresh AllocResult of `size` bytes
AllocDataOrPanic(b, size) ==
  [b EXCEPT !.allocs = @ \cup {[id |-> b.nextId, base |-> FirstFit(b.allocs, size),
                                size |-> size, born |-> Len(b.cmds)]},
            !.nextId = @ + 1,
            !.ranges = Append(@, [base |-> FirstFit(b.allocs, size), size |-> size])]

\* the AllocResult the last AllocDataOrPanic returned
LastAlloc(b) == CHOOSE r \in b.allocs : r.id = b.nextId - 1

\* Merge that joins the spans that overlap the new one but not those that
\* only touch it
Merge_AdjacentKept(intervals, r) ==
  LET span == [Start |-> r.base, End |-> r.base + r.size]
      joined == {i \in 1..Len(intervals) :
                   intervals[i].Start < span.End /\ span.Start < intervals[i].End}
      before(x) == x.End <= span.Start
      after(x) == x.Start >= span.End
  IN SelectSeq(intervals, before)
       \o <<[Start |-> Min({span.Start} \cup {intervals[i].Start : i \in joined}),
             End |-> Max({span.End} \cup {intervals[i].End : i \in joined})]>>
       \o SelectSeq(intervals, after)

\* interval.Merge(&list, U64Span{base, base+size}, true): the list of spans
\* [Start, End) is kept sorted; the new span and the spans it overlaps or
\* touches become one span
Merge(intervals, r) ==
  LET span == [Start |-> r.base, End |-> r.base + r.size]
      joined == {i \in 1..Len(intervals) :
                   intervals[i].Start <= span.End /\ span.Start <= intervals[i].End}
      before(x) == x.End < span.Start
      after(x) == x.Start > span.End
  IN SelectSeq(intervals, before)
       \o <<[Start |-> Min({span.Start} \cup {intervals[i].Start : i \in joined}),
             End |-> Max({span.End} \cup {intervals[i].End : i \in joined})]>>
       \o SelectSeq(intervals, after)

\* the addresses a list of spans covers
SpanAddresses(intervals) ==
  UNION {intervals[i].Start..(intervals[i].End - 1) : i \in 1..Len(intervals)}

MustAllocReadData(b, size) ==
  LET b1 == AllocDataOrPanic(b, size)
      r == LastAlloc(b1)
  IN [b1 EXCEPT !.readMemories = Append(@, r.id),
                !.memoryIntervals = Merge(@, r)]

MustAllocWriteData(b, size) ==
  LET b1 == AllocDataOrPanic(b, size)
      r == LastAlloc(b1)
  IN [b1 EXCEPT !.writeMemories = Append(@, r.id),
                !.memoryIntervals = Merge(@, r)]

RECURSIVE Allocs(_, _)
\* the Must* calls made while the arguments of one command are evaluated, in
\* order: "r" is MustAllocReadData or MustUnpackReadMap, "w" is
\* MustAllocWriteData or MustUnpackWriteMap
Allocs(b, ops) ==
  IF ops = <<>> THEN b
  ELSE Allocs(IF Head(ops) = "r" THEN MustAllocReadData(b, 1) ELSE MustAllocWriteData(b, 1),
              Tail(ops))

\* the allocator is exhausted: AllocDataOrPanic serves no allocation
AllocFails(b) == [b EXCEPT !.failed = @ + 1]

\* n times the operation op
Times(n, op) == [i \in 1..n |-> op]

\* AllocResult.Free
Free(b, id) ==
  IF \E r \in b.allocs : r.id = id
  THEN [b EXCEPT !.allocs = {r \in @ : r.id # id}, !.freed = @ + 1]
  ELSE [b EXCEPT !.doubleFrees = @ + 1]

RECURSIVE FreeAll(_, _)
FreeAll(b, ids) == IF ids = <<>> THEN b ELSE FreeAll(Free(b, Head(ids)), Tail(ids))

\* the outcomes of cmd.Mutate (TRUE: applied): a command that names a handle
\* that is not live in the new state raises the API's invalid-handle error,
\* which may abort the call
MutateOutcomes(ns, c) ==
  IF \E d \in c.deps : d[2] \notin ns[d[1]] THEN {TRUE, FALSE} ELSE {TRUE}

\* the effect of a successful cmd.Mutate on the new state
Mutate(ns, c) ==
  IF c.kind = "create"
  THEN IF c.name = "vkAllocateCommandBuffers"
       THEN [ns EXCEPT !.CommandBuffers = @ \cup c.objs,
                       !.PoolOf = @ \cup {<<h, d[2]>> : h \in c.objs, d \in c.deps}]
       ELSE [ns EXCEPT ![c.cat] = @ \cup c.objs]
  ELSE IF c.kind = "destroy"
  THEN IF c.cat = "CommandPools"
       THEN [ns EXCEPT !.CommandPools = @ \ c.objs,
                       !.CommandBuffers = @ \ {p[1] : p \in {q \in ns.PoolOf : q[2] \in c.objs}},
                       !.PoolOf = {q \in @ : q[2] \notin c.objs}]
       ELSE [ns EXCEPT ![c.cat] = @ \ c.objs]
  ELSE ns

\* write with its reset of the lists dropped: the pending lists are freed but not reset
write_KeepPending(b, cmd, ok) ==
  LET c == [cmd EXCEPT !.reads = @ \o b.readMemories,
                       !.writes = @ \o b.writeMemories,
                       !.mutated = ok]
      b1 == [b EXCEPT !.newState = IF ok THEN Mutate(@, c) ELSE @,
                      !.cmds = Append(@, c)]
  IN FreeAll(b1, b.readMemories \o b.writeMemories)

\* write with the append skipped when the mutation failed
write_DropFailed(b, cmd, ok) ==
  LET c == [cmd EXCEPT !.reads = @ \o b.readMemories,
                       !.writes = @ \o b.writeMemories,
                       !.mutated = ok]
      b1 == [b EXCEPT !.newState = IF ok THEN Mutate(@, c) ELSE @,
                      !.cmds = IF ok THEN Append(@, c) ELSE @]
      b2 == FreeAll(b1, b.readMemories \o b.writeMemories)
  IN [b2 EXCEPT !.readMemories = <<>>, !.writeMemories = <<>>]

\* write: attach the pending observations, mutate the new state (ok: the
\* mutation applied), append the command, free the pending allocations and
\* reset both lists
write(b, cmd, ok) ==
  LET c == [cmd EXCEPT !.reads = @ \o b.readMemories,
                       !.writes = @ \o b.writeMemories,
                       !.mutated = ok]
      b1 == [b EXCEPT !.newState = IF ok THEN Mutate(@, c) ELSE @,
                      !.cmds = Append(@, c)]
      b2 == FreeAll(b1, b.readMemories \o b.writeMemories)
  IN [b2 EXCEPT !.readMemories = <<>>, !.writeMemories = <<>>]
----------------------------------------------------------------------------
(* The call stack of RebuildState *)

\* the frame of the running routine
Top == Head(stack)

\* the routine fn is at position pc, its last command written
At(fn, pc) == stack # <<>> /\ cur = NoCmd /\ Top.fn = fn /\ Top.pc = pc

\* locals of the running routine
L == Top.l

Goto(pc) == stack' = <<[Top EXCEPT !.pc = pc]>> \o Tail(stack)

\* move to pc with the locals in `upd` assigned
GotoL(pc, upd) == stack' = <<[Top EXCEPT !.pc = pc, !.l = upd @@ @]>> \o Tail(stack)

\* call routine fn with arguments args; the caller, its locals in `upd`
\* assigned, resumes at retpc
CallL(retpc, upd, fn, args) ==
  stack' = <<[fn |-> fn, pc |-> "start", l |-> args]>> \o
           <<[Top EXCEPT !.pc = retpc, !.l = upd @@ @]>> \o Tail(stack)

Call(retpc, fn, args) == CallL(retpc, EmptyMap, fn, args)

\* a Go run-time panic (nil pointer dereference) unwinds RebuildState
Panic == stack' = <<[fn |-> "panic", pc |-> "start", l |-> EmptyMap]>>

\* the panic of AllocDataOrPanic unwinds RebuildState: no write follows
AllocPanics ==
  /\ cur = Exhausted
  /\ ~(stack # <<>> /\ Top.fn = "panic")
  /\ stack' = <<[fn |-> "panic", pc |-> "exhausted", l |-> EmptyMap]>>
  /\ UNCHANGED <<sb, cur>>
  /\ UNCHANGED <<s, compute, pipelines, unhandledPipelines, handledPipelines,
                 numHandled, iter, rpc, caller, bnd, fcall, peer, stage, todo>>

\* return: the values in `out` are assigned to the caller's locals
ReturnWith(out) ==
  stack' = IF Len(stack) = 1 THEN <<>>
           ELSE <<[stack[2] EXCEPT !.l = out @@ @]>> \o SubSeq(stack, 3, Len(stack))

Return == ReturnWith(EmptyMap)

\* evaluate the arguments of a command, the builder being b (the Must* calls
\* in ops, in order) and build it; the allocator may be exhausted at any of
\* the calls, and then the helper panics and no command is built
EmitFrom(b, ops, cmd) ==
  \/ sb' = Allocs(b, ops) /\ cur' = cmd
  \/ \E k \in 1..Len(ops) :
       sb' = AllocFails(Allocs(b, SubSeq(ops, 1, k - 1))) /\ cur' = Exhausted

\* Emit with the failure of a helper swallowed: the command is built on the
\* allocations that succeeded
Emit_FailureIgnored(ops, cmd) ==
  \/ sb' = Allocs(sb, ops) /\ cur' = cmd
  \/ \E k \in 1..Len(ops) :
       sb' = AllocFails(Allocs(sb, SubSeq(ops, 1, k - 1))) /\ cur' = cmd

\* evaluate the arguments of a command (the Must* calls in ops) and build it
Emit(ops, cmd) == EmitFrom(sb, ops, cmd)

\* a step that builds no command
Silent == UNCHANGED <<sb, cur>>

\* a helper that stores through the pointer it is handed
vkGetImageMemoryRequirements_Stored(memReq) == [memReq EXCEPT !.Size = 0]

\* line 1315: the helper is handed &img.MemoryRequirements, a pointer into
\* the image object of the old state; it reads the requirements for the
\* output of the command and leaves them as they are
vkGetImageMemoryRequirements(memReq) == memReq

\* the old state after a step of a routine: the only place a routine hands
\* out a pointer into it is line 1315
oldStateAfter ==
  IF At("createImage", "requirements") /\ L.obj.VulkanHandle \in DOMAIN s.Images
  THEN [s EXCEPT !.Images[L.obj.VulkanHandle].MemoryRequirements =
                   vkGetImageMemoryRequirements(@)]
  ELSE s

\* what no routine of the builder assigns
RoutineFrame ==
  /\ s' = oldStateAfter
  /\ UNCHANGED <<compute, pipelines, unhandledPipelines, handledPipelines,
                 numHandled, iter, rpc, caller, bnd, fcall, peer, stage, todo>>

\* sb.write(cmd), the call that follows the evaluation of cmd's arguments
Write ==
  /\ cur \notin {NoCmd, Exhausted}
  /\ \E ok \in MutateOutcomes(sb.newState, cur) : sb' = write(sb, cur, ok)
  /\ cur' = NoCmd
  /\ UNCHANGED stack
  /\ RoutineFrame
----------------------------------------------------------------------------
(* Queues, one-shot command buffers, scratch buffers *)

\* a nil *QueueObject
NilQueue == [VulkanHandle |-> 0, Device |-> 0, Family |-> 0, Index |-> 0]

\* a nil *DeviceMemoryObject
NilMemory == [VulkanHandle |-> 0, Device |-> 0, DedicatedAllocationNV |-> FALSE,
              Mapped |-> FALSE]

\* the values of a map
Values(m) == {m[k] : k \in DOMAIN m}

\* the handles snapshot objects have and refer to
Handles == 1..3

\* newUnusedID that draws the lowest handle, used or not
newUnusedID_Lowest(used) == {Min(Handles)}

\* newUnusedID: a handle for which the predicate `used` is false; the one
\* drawn is above every handle of the snapshot
newUnusedID(used) == {Max(Handles \cup used) + 1}

\* getQueueFor that takes the first queue it meets when no family matches,
\* whatever its device
getQueueFor_AnyDevice(lastBoundQueue, device, hasQueueFamilyIndices, queueFamilyIndices) ==
  IF lastBoundQueue.VulkanHandle # 0 THEN {lastBoundQueue}
  ELSE LET onDevice == {q \in Values(s.Queues) : q.Device = device}
           listed == {q \in onDevice : q.Family \in queueFamilyIndices}
       IN IF hasQueueFamilyIndices /\ listed # {} THEN listed
          ELSE IF s.Queues # EmptyMap THEN Values(s.Queues)
          ELSE {lastBoundQueue}

\* the queues getQueueFor may return: the last bound queue if any, else the
\* first queue of the device the `range` over s.Queues meets (one of a listed
\* family when families are listed and one matches), else nil
getQueueFor(lastBoundQueue, device, hasQueueFamilyIndices, queueFamilyIndices) ==
  IF lastBoundQueue.VulkanHandle # 0 THEN {lastBoundQueue}
  ELSE LET onDevice == {q \in Values(s.Queues) : q.Device = device}
           listed == {q \in onDevice : q.Family \in queueFamilyIndices}
       IN IF hasQueueFamilyIndices /\ listed # {} THEN listed
          ELSE IF onDevice # {} THEN onDevice
          ELSE {lastBoundQueue}

\* lines 887-923: the queues getSparseQueueFor may return: the last bound
\* queue if its family binds sparse memory; else, when families are listed,
\* the first queue of the device the `range` over s.Queues meets whose family
\* binds sparse memory and is listed; else the last bound queue, nil or not
getSparseQueueFor(lastBoundQueue, device, hasQueueFamilyIndices, queueFamilyIndices) ==
  LET Sparse(q) ==
        s.PhysicalDevices[s.Devices[q.Device].PhysicalDevice]
          .QueueFamilyProperties[q.Family].SparseBinding
      fit == {v \in Values(s.Queues) :
                v.Device = device /\ Sparse(v) /\ v.Family \in queueFamilyIndices}
  IN IF lastBoundQueue.VulkanHandle # 0 /\ Sparse(lastBoundQueue) THEN {lastBoundQueue}
     ELSE IF device \notin DOMAIN s.Devices
               \/ s.Devices[device].PhysicalDevice \notin DOMAIN s.PhysicalDevices
     THEN {lastBoundQueue}
     ELSE IF hasQueueFamilyIndices /\ fit # {} THEN fit
     ELSE {lastBoundQueue}

\* getCommandBuffer(queue): a pool and a primary command buffer with fresh
\* handles, the buffer begun
getCommandBuffer ==
  /\ \/ /\ At("getCommandBuffer", "start")
        /\ IF L.queue.VulkanHandle = 0
           THEN Panic /\ Silent
           ELSE \E commandBufferId \in newUnusedID(DOMAIN s.CommandBuffers),
                   commandPoolId \in newUnusedID(DOMAIN s.CommandPools) :
                  /\ Emit(<<"r", "w">>,
                          [Create("vkCreateCommandPool", "CommandPools", {commandPoolId}, {})
                             EXCEPT !.device = L.queue.Device, !.family = L.queue.Family])
                  /\ GotoL("allocate", [commandBuffer |-> commandBufferId,
                                        commandPool |-> commandPoolId])
     \/ /\ At("getCommandBuffer", "allocate")
        /\ Emit(<<"r", "w">>,
                Create("vkAllocateCommandBuffers", "CommandBuffers", {L.commandBuffer},
                       Dep("CommandPools", L.commandPool)))
        /\ Goto("begin")
     \/ /\ At("getCommandBuffer", "begin")
        /\ Emit(<<"r">>, Other("vkBeginCommandBuffer", Dep("CommandBuffers", L.commandBuffer)))
        /\ ReturnWith([commandBuffer |-> L.commandBuffer, commandPool |-> L.commandPool])
  /\ RoutineFrame

\* endSubmitAndDestroyCommandBuffer with vkDestroyCommandPool dropped
endSubmit_PoolKept ==
  /\ \/ /\ At("endSubmitAndDestroyCommandBuffer", "start")
        /\ Emit(<<>>, Other("vkEndCommandBuffer", Dep("CommandBuffers", L.commandBuffer)))
        /\ Goto("submit")
     \/ /\ At("endSubmitAndDestroyCommandBuffer", "submit")
        /\ Emit(<<"r", "r">>,
                Other("vkQueueSubmit", Dep("Queues", L.queue.VulkanHandle)
                                         \cup Dep("CommandBuffers", L.commandBuffer)))
        /\ Goto("wait")
     \/ /\ At("endSubmitAndDestroyCommandBuffer", "wait")
        /\ Emit(<<>>, Other("vkQueueWaitIdle", Dep("Queues", L.queue.VulkanHandle)))
        /\ Goto("destroy")
     \/ /\ At("endSubmitAndDestroyCommandBuffer", "destroy")
        /\ Silent
        /\ Return
  /\ RoutineFrame

\* endSubmitAndDestroyCommandBuffer(queue, commandBuffer, commandPool)
endSubmitAndDestroyCommandBuffer ==
  /\ \/ /\ At("endSubmitAndDestroyCommandBuffer", "start")
        /\ Emit(<<>>, Other("vkEndCommandBuffer", Dep("CommandBuffers", L.commandBuffer)))
        /\ Goto("submit")
     \/ /\ At("endSubmitAndDestroyCommandBuffer", "submit")
        /\ Emit(<<"r", "r">>,
                Other("vkQueueSubmit", Dep("Queues", L.queue.VulkanHandle)
                                         \cup Dep("CommandBuffers", L.commandBuffer)))
        /\ Goto("wait")
     \/ /\ At("endSubmitAndDestroyCommandBuffer", "wait")
        /\ Emit(<<>>, Other("vkQueueWaitIdle", Dep("Queues", L.queue.VulkanHandle)))
        /\ Goto("destroy")
     \/ /\ At("endSubmitAndDestroyCommandBuffer", "destroy")
        /\ Emit(<<>>, [Destroy("vkDestroyCommandPool", "CommandPools", {L.commandPool})
                         EXCEPT !.device = L.queue.Device])
        /\ Return
  /\ RoutineFrame

\* transitionImage with the cycle closed on a queue of another family than
\* the one it was opened on
transitionImage_OtherQueue ==
  /\ \/ /\ At("transitionImage", "start")
        /\ Silent
        /\ IF L.image.LastBoundQueue.VulkanHandle = 0
           THEN Return
           ELSE Call("barrier", "getCommandBuffer", [queue |-> L.image.LastBoundQueue])
     \/ /\ At("transitionImage", "barrier")
        /\ IF L.newQueue.VulkanHandle = 0
           THEN Panic /\ Silent
           ELSE /\ Emit(<<"r">>,
                        Other("vkCmdPipelineBarrier",
                              Dep("CommandBuffers", L.commandBuffer)
                                \cup Dep("Images", L.image.VulkanHandle)))
                /\ Goto("end")
     \/ /\ At("transitionImage", "end")
        /\ Silent
        /\ Call("return", "endSubmitAndDestroyCommandBuffer",
                [queue |-> [L.newQueue EXCEPT !.VulkanHandle = 3 - @, !.Family = 1 - @],
                 commandBuffer |-> L.commandBuffer,
                 commandPool |-> L.commandPool])
     \/ /\ At("transitionImage", "return")
        /\ Silent
        /\ Return
  /\ RoutineFrame

\* transitionImage(image, oldLayout, newLayout, oldQueue, newQueue)
transitionImage ==
  /\ \/ /\ At("transitionImage", "start")
        /\ Silent
        /\ IF L.image.LastBoundQueue.VulkanHandle = 0
           THEN Return
           ELSE Call("barrier", "getCommandBuffer", [queue |-> L.image.LastBoundQueue])
     \/ /\ At("transitionImage", "barrier")
        /\ IF L.newQueue.VulkanHandle = 0
           THEN Panic /\ Silent
           ELSE /\ Emit(<<"r">>,
                        Other("vkCmdPipelineBarrier",
                              Dep("CommandBuffers", L.commandBuffer)
                                \cup Dep("Images", L.image.VulkanHandle)))
                /\ Goto("end")
     \/ /\ At("transitionImage", "end")
        /\ Silent
        /\ Call("return", "endSubmitAndDestroyCommandBuffer",
                [queue |-> L.newQueue, commandBuffer |-> L.commandBuffer,
                 commandPool |-> L.commandPool])
     \/ /\ At("transitionImage", "return")
        /\ Silent
        /\ Return
  /\ RoutineFrame

\* FreeScratchData with atdata.Free() dropped: the payload is freed, the mapped pointer is not
FreeScratchData_PointerKept(b, dat, atdata) == Free(b, dat)

\* lines 876-877: dat.Free(); atdata.Free()
FreeScratchData(b, dat, atdata) == Free(Free(b, dat), atdata)

\* v & ^uint64(m - 1), for m a power of two: the low bits of v cleared
ClearLow(v, m) == v - (v % m)

\* allocSize with the mask but without the 255 added before it
allocSize_RoundedDown(size) == ClearLow(size * 2, 256)

\* line 818: allocSize := (uint64(size*2) + uint64(255)) & ^uint64(255); the
\* sizes of the model stay far below 2^63, where size*2 wraps
allocSize(size) == ClearLow(size * 2 + 255, 256)

\* allocAndFillScratchBuffer(device, data, usages...): a buffer and a memory
\* with fresh handles, the memory filled with `data` through a mapping;
\* L.size is len(data) (line 788)
allocAndFillScratchBuffer ==
  /\ \/ /\ At("allocAndFillScratchBuffer", "start")
        /\ \E buffer \in newUnusedID(DOMAIN s.Buffers),
              deviceMemory \in newUnusedID(DOMAIN s.DeviceMemories) :
             /\ Emit(<<"r", "w">>, [Create("vkCreateBuffer", "Buffers", {buffer}, {})
                                     EXCEPT !.size = L.size])
             /\ GotoL("allocate", [buffer |-> buffer, deviceMemory |-> deviceMemory])
     \/ /\ At("allocAndFillScratchBuffer", "allocate")
        /\ Emit(<<"r", "w">>,
                [Create("vkAllocateMemory", "DeviceMemories", {L.deviceMemory}, {})
                   EXCEPT !.size = allocSize(L.size)])
        /\ Goto("bind")
     \/ /\ At("allocAndFillScratchBuffer", "bind")
        /\ Emit(<<>>, Other("vkBindBufferMemory", Dep("Buffers", L.buffer)
                                                    \cup Dep("DeviceMemories", L.deviceMemory)))
        /\ Goto("map")
     \/ /\ At("allocAndFillScratchBuffer", "map")
        /\ LET dat == sb.nextId
               atdata == sb.nextId + 1
           IN /\ sb' = AllocDataOrPanic(AllocDataOrPanic(sb, L.size), 1)
              /\ cur' = [Other("vkMapMemory", Dep("DeviceMemories", L.deviceMemory))
                           EXCEPT !.reads = <<atdata>>, !.writes = <<atdata>>]
              /\ GotoL("flush", [dat |-> dat, atdata |-> atdata])
     \/ /\ At("allocAndFillScratchBuffer", "flush")
        /\ Emit(<<"r">>, [Other("vkFlushMappedMemoryRanges",
                                Dep("DeviceMemories", L.deviceMemory))
                            EXCEPT !.reads = <<L.dat>>])
        /\ Goto("unmap")
     \/ /\ At("allocAndFillScratchBuffer", "unmap")
        /\ Emit(<<>>, Other("vkUnmapMemory", Dep("DeviceMemories", L.deviceMemory)))
        /\ Goto("free")
     \/ /\ At("allocAndFillScratchBuffer", "free")
        /\ sb' = FreeScratchData(sb, L.dat, L.atdata)
        /\ cur' = cur
        /\ ReturnWith([scratchBuffer |-> L.buffer, scratchMemory |-> L.deviceMemory])
  /\ RoutineFrame

\* freeScratchBuffer(device, buffer, mem)
freeScratchBuffer ==
  /\ \/ /\ At("freeScratchBuffer", "start")
        /\ Emit(<<>>, Destroy("vkDestroyBuffer", "Buffers", {L.buffer}))
        /\ Goto("free")
     \/ /\ At("freeScratchBuffer", "free")
        /\ Emit(<<>>, Destroy("vkFreeMemory", "DeviceMemories", {L.mem}))
        /\ Return
  /\ RoutineFrame
----------------------------------------------------------------------------
(* The create routines, in the order RebuildState calls them *)

\* createInstance(vk, inst); the snapshots drawn enable no layer or extension
createInstance ==
  /\ At("createInstance", "start")
  /\ Emit(<<"r", "r", "r", "w">>,
          Create("vkCreateInstance", "Instances", {L.obj.VulkanHandle}, {}))
  /\ Return
  /\ RoutineFrame

\* createPhysicalDevices(Map): per instance, in the order of a Go map range,
\* enumerate its devices and query each of them
createPhysicalDevices ==
  /\ \/ /\ At("createPhysicalDevices", "start")
        /\ Silent
        /\ GotoL("range", [instances |-> {s.PhysicalDevices[k].Instance :
                                            k \in DOMAIN s.PhysicalDevices}])
     \/ /\ At("createPhysicalDevices", "range")
        /\ IF L.instances = {}
           THEN Return /\ Silent
           ELSE \E i \in L.instances :
                  /\ Emit(<<"w">>, Other("vkEnumeratePhysicalDevices", Dep("Instances", i)))
                  /\ GotoL("enumerate",
                           [instances |-> L.instances \ {i}, i |-> i,
                            devs |-> SortedKeys({k \in DOMAIN s.PhysicalDevices :
                                                   s.PhysicalDevices[k].Instance = i})])
     \/ /\ At("createPhysicalDevices", "enumerate")
        /\ Emit(<<"r", "r">>,
                Create("vkEnumeratePhysicalDevices", "PhysicalDevices", Range(L.devs),
                       Dep("Instances", L.i)))
        /\ Goto("properties")
     \/ /\ At("createPhysicalDevices", "properties")
        /\ IF L.devs = <<>>
           THEN Goto("range") /\ Silent
           ELSE /\ Emit(<<"w">>, Other("vkGetPhysicalDeviceProperties",
                                       Dep("PhysicalDevices", Head(L.devs))))
                /\ Goto("memoryProperties")
     \/ /\ At("createPhysicalDevices", "memoryProperties")
        /\ Emit(<<"w">>, Other("vkGetPhysicalDeviceMemoryProperties",
                               Dep("PhysicalDevices", Head(L.devs))))
        /\ Goto("queueFamilyCount")
     \/ /\ At("createPhysicalDevices", "queueFamilyCount")
        /\ Emit(<<"w">>, Other("vkGetPhysicalDeviceQueueFamilyProperties",
                               Dep("PhysicalDevices", Head(L.devs))))
        /\ Goto("queueFamilyProperties")
     \/ /\ At("createPhysicalDevices", "queueFamilyProperties")
        /\ Emit(<<"r", "w">>, Other("vkGetPhysicalDeviceQueueFamilyProperties",
                                    Dep("PhysicalDevices", Head(L.devs))))
        /\ GotoL("properties", [devs |-> Tail(L.devs)])
  /\ RoutineFrame

\* the surface types createSurface has a case for
SurfaceCreate ==
  [XCB |-> "vkCreateXcbSurfaceKHR", ANDROID |-> "vkCreateAndroidSurfaceKHR",
   WIN32 |-> "vkCreateWin32SurfaceKHR", WAYLAND |-> "vkCreateWaylandSurfaceKHR",
   XLIB |-> "vkCreateXlibSurfaceKHR", MIR |-> "vkCreateMirSurfaceKHR"]

\* createSurface(s): a surface of another type emits nothing
createSurface ==
  /\ At("createSurface", "start")
  /\ IF L.obj.Type \in DOMAIN SurfaceCreate
     THEN Emit(<<"r", "w">>,
               Create(SurfaceCreate[L.obj.Type], "Surfaces", {L.obj.VulkanHandle},
                      Dep("Instances", L.obj.Instance)))
     ELSE Silent
  /\ Return
  /\ RoutineFrame

\* createDevice(d): one priorities array per queue family, then the create
\* info and its arrays
createDevice ==
  /\ At("createDevice", "start")
  /\ Emit(Times(Cardinality(L.obj.Families), "r") \o <<"r", "r", "r", "r", "r", "w">>,
          Create("vkCreateDevice", "Devices", {L.obj.VulkanHandle},
                 Dep("PhysicalDevices", L.obj.PhysicalDevice)))
  /\ Return
  /\ RoutineFrame

\* createQueue(q)
createQueue ==
  /\ At("createQueue", "start")
  /\ Emit(<<"w">>, Create("vkGetDeviceQueue", "Queues", {L.obj.VulkanHandle},
                          Dep("Devices", L.obj.Device)))
  /\ Return
  /\ RoutineFrame

\* createSwapchain(swp): create, fetch the images, transition each of them
createSwapchain ==
  /\ \/ /\ At("createSwapchain", "start")
        /\ Emit(<<"r", "r", "w">>,
                Create("vkCreateSwapchainKHR", "Swapchains", {L.obj.VulkanHandle},
                       Dep("Surfaces", L.obj.Surface.VulkanHandle)))
        /\ Goto("count")
     \/ /\ At("createSwapchain", "count")
        /\ Emit(<<"w">>, Other("vkGetSwapchainImagesKHR",
                               Dep("Swapchains", L.obj.VulkanHandle)))
        /\ Goto("images")
     \/ /\ At("createSwapchain", "images")
        /\ Emit(<<"r", "w">>,
                Create("vkGetSwapchainImagesKHR", "Images",
                       {v.VulkanHandle : v \in Values(L.obj.SwapchainImages)},
                       Dep("Swapchains", L.obj.VulkanHandle)))
        /\ GotoL("range", [rest |-> DOMAIN L.obj.SwapchainImages])
     \/ /\ At("createSwapchain", "range")
        /\ Silent
        /\ IF L.rest = {}
           THEN Return
           ELSE \E k \in L.rest :
                  LET v == L.obj.SwapchainImages[k]
                  IN \E q \in getQueueFor(v.LastBoundQueue, v.Device, TRUE,
                                          v.Info.QueueFamilyIndices) :
                       CallL("range", [rest |-> L.rest \ {k}], "transitionImage",
                             [image |-> v, oldQueue |-> NilQueue, newQueue |-> q])
  /\ RoutineFrame

\* createDeviceMemory(mem, allowDedicatedNV)
createDeviceMemory ==
  /\ \/ /\ At("createDeviceMemory", "start")
        /\ IF ~L.allowDedicatedNV /\ L.obj.DedicatedAllocationNV
           THEN Return /\ Silent
           ELSE /\ Emit((IF L.obj.DedicatedAllocationNV THEN <<"r">> ELSE <<>>)
                          \o <<"r", "w">>,
                        Create("vkAllocateMemory", "DeviceMemories",
                               {L.obj.VulkanHandle}, {}))
                /\ IF L.obj.Mapped THEN Goto("map") ELSE Return
     \/ /\ At("createDeviceMemory", "map")
        /\ Emit(<<"w">>, Other("vkMapMemory", Dep("DeviceMemories", L.obj.VulkanHandle)))
        /\ Return
  /\ RoutineFrame

\* dedicatedMemoryNV of createBuffer and createImage: the resource is bound
\* and the dedicated-allocation info is on the resource or on the memory
DedicatedMemoryNV(memory, info) ==
  memory.VulkanHandle # 0 /\ (info.DedicatedAllocationNV \/ memory.DedicatedAllocationNV)

\* createBuffer(buffer), for a buffer without sparse bindings: create, query,
\* create a dedicated memory, bind, and copy the contents in through a
\* scratch buffer on a one-shot command buffer
createBuffer ==
  /\ \/ /\ At("createBuffer", "start")
        /\ Emit((IF L.obj.Info.DedicatedAllocationNV THEN <<"r">> ELSE <<>>)
                  \o <<"r", "r", "w">>,
                Create("vkCreateBuffer", "Buffers", {L.obj.VulkanHandle}, {}))
        /\ Goto("requirements")
     \/ /\ At("createBuffer", "requirements")
        /\ Emit(<<"w">>, Other("vkGetBufferMemoryRequirements",
                               Dep("Buffers", L.obj.VulkanHandle)))
        /\ Goto("dedicated")
     \/ /\ At("createBuffer", "dedicated")
        /\ Silent
        /\ IF DedicatedMemoryNV(L.obj.Memory, L.obj.Info)
           THEN Call("bind", "createDeviceMemory",
                     [obj |-> L.obj.Memory, allowDedicatedNV |-> TRUE])
           ELSE Goto("bind")
     \/ /\ At("createBuffer", "bind")
        /\ IF L.obj.Memory.VulkanHandle = 0
           THEN Return /\ Silent
           ELSE \E queue \in getQueueFor(L.obj.LastBoundQueue, L.obj.Device, TRUE,
                                         L.obj.Info.QueueFamilyIndices) :
                  /\ Emit(<<>>, Other("vkBindBufferMemory",
                                      Dep("Buffers", L.obj.VulkanHandle)
                                        \cup Dep("DeviceMemories", L.obj.Memory.VulkanHandle)))
                  /\ GotoL("scratch", [queue |-> queue])
     \/ /\ At("createBuffer", "scratch")
        /\ Silent
        /\ Call("commandBuffer", "allocAndFillScratchBuffer", [size |-> L.obj.Info.Size])
     \/ /\ At("createBuffer", "commandBuffer")
        /\ Silent
        /\ Call("barrier", "getCommandBuffer", [queue |-> L.queue])
     \/ /\ At("createBuffer", "barrier")
        /\ Emit(<<"r">>, Other("vkCmdPipelineBarrier",
                               Dep("CommandBuffers", L.commandBuffer)
                                 \cup Dep("Buffers", L.scratchBuffer)))
        /\ Goto("copy")
     \/ /\ At("createBuffer", "copy")
        /\ Emit(<<"r">>, Other("vkCmdCopyBuffer",
                               Dep("CommandBuffers", L.commandBuffer)
                                 \cup Dep("Buffers", L.scratchBuffer)
                                 \cup Dep("Buffers", L.obj.VulkanHandle)))
        /\ Goto("barrierAfter")
     \/ /\ At("createBuffer", "barrierAfter")
        /\ Emit(<<"r">>, Other("vkCmdPipelineBarrier",
                               Dep("CommandBuffers", L.commandBuffer)
                                 \cup Dep("Buffers", L.obj.VulkanHandle)))
        /\ Goto("submit")
     \/ /\ At("createBuffer", "submit")
        /\ Silent
        /\ Call("release", "endSubmitAndDestroyCommandBuffer",
                [queue |-> L.queue, commandBuffer |-> L.commandBuffer,
                 commandPool |-> L.commandPool])
     \/ /\ At("createBuffer", "release")
        /\ Silent
        /\ Call("return", "freeScratchBuffer",
                [buffer |-> L.scratchBuffer, mem |-> L.scratchMemory])
     \/ /\ At("createBuffer", "return")
        /\ Silent
        /\ Return
  /\ RoutineFrame

\* nextMultipleOf8 without the 7 added before the mask
nextMultipleOf8_RoundedDown(v) == ClearLow(v, 8)

\* lines 1194-1196: (v + 7) & ^uint64(7)
nextMultipleOf8(v) == ClearLow(v + 7, 8)

\* what subGetElementAndTexelBlockSize and subGetDepthElementSize return for
\* a format: the element size, and the size of a depth element in an image
\* and in a buffer (0 for a format without depth)
Formats ==
  { [Name |-> "R8_UNORM", ElementSize |-> 1, DepthSize |-> 0, DepthSizeInBuf |-> 0],
    [Name |-> "R8G8B8A8_UNORM", ElementSize |-> 4, DepthSize |-> 0, DepthSizeInBuf |-> 0],
    [Name |-> "R16G16B16_UNORM", ElementSize |-> 6, DepthSize |-> 0, DepthSizeInBuf |-> 0],
    [Name |-> "D16_UNORM", ElementSize |-> 2, DepthSize |-> 2, DepthSizeInBuf |-> 2],
    [Name |-> "D24_UNORM_S8_UINT", ElementSize |-> 4, DepthSize |-> 3, DepthSizeInBuf |-> 4],
    [Name |-> "D32_SFLOAT_S8_UINT", ElementSize |-> 5, DepthSize |-> 4, DepthSizeInBuf |-> 4] }

Aspects == {"COLOR", "DEPTH", "STENCIL", "METADATA"}

\* lines 1208-1247: levelSize, from the extent of the level in texel blocks
\* (the width and height rounded up by subRoundUpTo, the depth of
\* subGetMipSize), the format and the aspect
levelSize(widthInBlocks, heightInBlocks, depth, format, aspect) ==
  LET elementSize == CASE aspect = "COLOR" -> format.ElementSize
                       [] aspect = "DEPTH" -> format.DepthSize
                       [] aspect = "STENCIL" -> 1
                       [] OTHER -> 0
      elementSizeInBuf == IF aspect = "DEPTH" THEN format.DepthSizeInBuf ELSE elementSize
      size == widthInBlocks * heightInBlocks * depth * elementSize
      sizeInBuf == widthInBlocks * heightInBlocks * depth * elementSizeInBuf
  IN [levelSize |-> size,
      alignedLevelSize |-> nextMultipleOf8(size),
      levelSizeInBuf |-> sizeInBuf,
      alignedLevelSizeInBuf |-> nextMultipleOf8(sizeInBuf)]

\* the bits of VkImageUsageFlags
UsageBits ==
  {"TRANSFER_SRC", "TRANSFER_DST", "SAMPLED", "STORAGE", "COLOR_ATTACHMENT",
   "DEPTH_STENCIL_ATTACHMENT", "TRANSIENT_ATTACHMENT", "INPUT_ATTACHMENT"}

\* the three flags, each from its own usage bits alone
primeFlags_Independent(usage) ==
  [primeByBufCopy |-> "TRANSFER_DST" \in usage,
   primeByRendering |-> usage \cap {"COLOR_ATTACHMENT", "DEPTH_STENCIL_ATTACHMENT"} # {},
   primeByImageStore |-> "STORAGE" \in usage]

\* lines 1306-1312: the three flags createImage computes from the usage
primeFlags(usage) ==
  LET transDstBit == {"TRANSFER_DST"}
      attBits == {"COLOR_ATTACHMENT", "DEPTH_STENCIL_ATTACHMENT"}
      storageBit == {"STORAGE"}
      primeByBufCopy == usage \cap transDstBit # {}
      primeByRendering == ~primeByBufCopy /\ usage \cap attBits # {}
      primeByImageStore == ~primeByBufCopy /\ ~primeByRendering /\ usage \cap storageBit # {}
  IN [primeByBufCopy |-> primeByBufCopy, primeByRendering |-> primeByRendering,
      primeByImageStore |-> primeByImageStore]

\* lines 1516-1522: the method of the primer createImage calls, if any
primeCalls(flags) ==
  IF flags.primeByBufCopy THEN {"primeByBufferCopy"}
  ELSE IF flags.primeByRendering THEN {"primeByRendering"}
  ELSE IF flags.primeByImageStore THEN {"primeByImageStore"}
  ELSE {}

RECURSIVE CopiesOf(_, _, _)
\* lines 1079-1092: one VkBufferCopy per binding, in the order the range
\* over the map visits the bindings; the source offset advances by the size
\* of the binding and is then rounded up to a multiple of 8
CopiesOf(order, bindings, offset) ==
  IF order = <<>> THEN <<>>
  ELSE LET size == bindings[Head(order)].Size
       IN <<[srcOffset |-> offset, dstOffset |-> Head(order), size |-> size]>>
            \o CopiesOf(Tail(order), bindings, nextMultipleOf8(offset + size))

\* sparseCopies without the test of the coverage
sparseCopies_Unchecked(sparseResidency, size, bindings, order) ==
  CopiesOf(order, bindings, 0)

\* lines 1078-1093: the copy regions createBuffer builds for a buffer with
\* sparse bindings
sparseCopies(sparseResidency, size, bindings, order) ==
  IF sparseResidency \/ IsFullyBound(0, size, bindings)
  THEN CopiesOf(order, bindings, 0)
  ELSE <<>>

\* lines 1078-1086: the payload createBuffer hands to the scratch buffer: the
\* data of each visited binding appended to the data of those before it
\* (a byte of data stands as the buffer address it was read for)
sparseContents(sparseResidency, size, bindings, order) ==
  LET RECURSIVE contentsOf(_)
      contentsOf(o) ==
        IF o = <<>> THEN <<>>
        ELSE [j \in 1..bindings[Head(o)].Size |-> Head(o) + j - 1] \o contentsOf(Tail(o))
  IN IF sparseResidency \/ IsFullyBound(0, size, bindings)
     THEN contentsOf(order)
     ELSE <<>>

\* lines 1433-1438: whether the mip tail of the metadata aspect is bound
\* (the last requirement with the metadata aspect decides)
IsMetadataBound(reqs, bindings) ==
  LET meta == {i \in 1..Len(reqs) : reqs[i].Metadata}
  IN IF meta = {} THEN FALSE
     ELSE LET req == reqs[Max(meta)]
          IN IsFullyBound(req.ImageMipTailOffset, req.ImageMipTailSize, bindings)

RECURSIVE LayerRanges(_, _, _, _)
\* lines 1457-1469: one range per array layer whose mip tail is bound
LayerRanges(req, bindings, i, layers) ==
  IF i >= layers THEN <<>>
  ELSE LET offset == req.ImageMipTailOffset + i * req.ImageMipTailStride
       IN (IF IsFullyBound(offset, req.ImageMipTailSize, bindings)
           THEN <<[baseMipLevel |-> req.ImageMipTailFirstLod, baseArrayLayer |-> i,
                   layerCount |-> 1]>>
           ELSE <<>>)
            \o LayerRanges(req, bindings, i + 1, layers)

RECURSIVE TailRanges(_, _, _)
\* lines 1443-1471: the ranges of the mip tails of a sparse-resident image
TailRanges(reqs, bindings, layers) ==
  IF reqs = <<>> THEN <<>>
  ELSE LET req == Head(reqs)
       IN (IF req.SingleMipTail
           THEN IF IsFullyBound(req.ImageMipTailOffset, req.ImageMipTailSize, bindings)
                THEN <<[baseMipLevel |-> req.ImageMipTailFirstLod, baseArrayLayer |-> 0,
                        layerCount |-> layers]>>
                ELSE <<>>
           ELSE LayerRanges(req, bindings, 0, layers))
            \o TailRanges(Tail(reqs), bindings, layers)

\* lines 1431-1483: the opaque ranges createImage hands to the primer for an
\* image with sparse bindings; reqs are the sparse memory requirements in
\* the order the range over the map visits them
opaqueRanges(sparseResidency, size, reqs, layers, bindings) ==
  IF sparseResidency
  THEN IF IsMetadataBound(reqs, bindings) THEN TailRanges(reqs, bindings, layers) ELSE <<>>
  ELSE IF IsFullyBound(0, size, bindings)
       THEN <<[baseMipLevel |-> 0, baseArrayLayer |-> 0, layerCount |-> layers]>>
       ELSE <<>>

\* afterBind without the test of the sample count
afterBind_SamplesIgnored(img) ==
  IF img.Info.Layout = "UNDEFINED" THEN "return"
  ELSE IF primeCalls(primeFlags(img.Info.Usage)) = {} THEN "return"
  ELSE "prime"

\* lines 1501-1522: what createImage does once the memory is bound: return
\* for the undefined layout, only a transition for a multi-sampled image,
\* else the method of the primer the usage selects
afterBind(img) ==
  IF img.Info.Layout = "UNDEFINED" THEN "return"
  ELSE IF img.Info.Samples # 1 THEN "transition"
  ELSE IF primeCalls(primeFlags(img.Info.Usage)) = {} THEN "return"
  ELSE "prime"

\* createImage(img, imgPrimer), for an image without sparse bindings. The
\* commands of a method of the primer stand as one command named after the
\* method; the method may also return an error and emit none
createImage ==
  /\ \/ /\ At("createImage", "start")
        /\ IF L.obj.IsSwapchainImage
           THEN Return /\ Silent
           ELSE /\ Emit(<<"r", "r", "w">>,
                        Create("vkCreateImage", "Images", {L.obj.VulkanHandle}, {}))
                /\ Goto("requirements")
     \/ /\ At("createImage", "requirements")
        /\ Emit(<<"w">>, [Other("vkGetImageMemoryRequirements",
                                Dep("Images", L.obj.VulkanHandle))
                            EXCEPT !.size = IF L.obj.VulkanHandle \in DOMAIN s.Images
                                            THEN s.Images[L.obj.VulkanHandle]
                                                   .MemoryRequirements.Size
                                            ELSE L.obj.MemoryRequirements.Size])
        /\ Goto("dedicated")
     \/ /\ At("createImage", "dedicated")
        /\ Silent
        /\ IF DedicatedMemoryNV(L.obj.BoundMemory, L.obj.Info)
           THEN Call("bind", "createDeviceMemory",
                     [obj |-> L.obj.BoundMemory, allowDedicatedNV |-> TRUE])
           ELSE Goto("bind")
     \/ /\ At("createImage", "bind")
        /\ IF L.obj.BoundMemory.VulkanHandle = 0
           THEN Return /\ Silent
           ELSE \E queue \in getQueueFor(L.obj.LastBoundQueue, L.obj.Device, TRUE,
                                         L.obj.Info.QueueFamilyIndices) :
                  /\ Emit(<<>>, Other("vkBindImageMemory",
                                      Dep("Images", L.obj.VulkanHandle)
                                        \cup Dep("DeviceMemories",
                                                 L.obj.BoundMemory.VulkanHandle)))
                  /\ GotoL("layout", [queue |-> queue])
     \/ /\ At("createImage", "layout")
        /\ Silent
        /\ CASE afterBind(L.obj) = "transition" ->
                  Call("return", "transitionImage",
                       [image |-> L.obj, oldQueue |-> NilQueue, newQueue |-> L.queue])
             [] afterBind(L.obj) = "prime" -> Goto("prime")
             [] OTHER -> Return
     \/ /\ At("createImage", "prime")
        /\ \E call \in primeCalls(primeFlags(L.obj.Info.Usage)) :
             \/ Emit(<<>>, Other(call, Dep("Images", L.obj.VulkanHandle)))
             \/ Silent
        /\ Return
     \/ /\ At("createImage", "return")
        /\ Silent
        /\ Return
  /\ RoutineFrame

\* createSampler(smp)
createSampler ==
  /\ At("createSampler", "start")
  /\ Emit(<<"r", "w">>, Create("vkCreateSampler", "Samplers", {L.obj.VulkanHandle}, {}))
  /\ Return
  /\ RoutineFrame

\* createFence(fnc)
createFence ==
  /\ At("createFence", "start")
  /\ Emit(<<"r", "w">>, Create("vkCreateFence", "Fences", {L.obj.VulkanHandle}, {}))
  /\ Return
  /\ RoutineFrame

\* the queue a signaled semaphore is signaled on: its last queue if that is
\* in the snapshot, else the last queue of the device the range meets, else
\* the stale handle
SemaphoreQueues(sem) ==
  LET onDevice == {q.VulkanHandle : q \in {v \in Values(s.Queues) : v.Device = sem.Device}}
  IN IF sem.LastQueue \in DOMAIN s.Queues \/ onDevice = {}
     THEN {sem.LastQueue} ELSE onDevice

\* createSemaphore(sem)
createSemaphore ==
  /\ \/ /\ At("createSemaphore", "start")
        /\ Emit(<<"r", "w">>,
                Create("vkCreateSemaphore", "Semaphores", {L.obj.VulkanHandle}, {}))
        /\ IF L.obj.Signaled THEN Goto("signal") ELSE Return
     \/ /\ At("createSemaphore", "signal")
        /\ \E queue \in SemaphoreQueues(L.obj) :
             Emit(<<"r", "r">>, Other("vkQueueSubmit",
                                      Dep("Queues", queue)
                                        \cup Dep("Semaphores", L.obj.VulkanHandle)))
        /\ Return
  /\ RoutineFrame

\* createEvent(evt)
createEvent ==
  /\ \/ /\ At("createEvent", "start")
        /\ Emit(<<"r", "w">>, Create("vkCreateEvent", "Events", {L.obj.VulkanHandle}, {}))
        /\ IF L.obj.Signaled THEN Goto("set") ELSE Return
     \/ /\ At("createEvent", "set")
        /\ Emit(<<>>, Other("vkSetEvent", Dep("Events", L.obj.VulkanHandle)))
        /\ Return
  /\ RoutineFrame

\* createCommandPool(cp)
createCommandPool ==
  /\ At("createCommandPool", "start")
  /\ Emit(<<"r", "w">>,
          Create("vkCreateCommandPool", "CommandPools", {L.obj.VulkanHandle}, {}))
  /\ Return
  /\ RoutineFrame

\* createPipelineCache(pc)
createPipelineCache ==
  /\ At("createPipelineCache", "start")
  /\ Emit(<<"r", "w">>,
          Create("vkCreatePipelineCache", "PipelineCaches", {L.obj.VulkanHandle}, {}))
  /\ Return
  /\ RoutineFrame

RECURSIVE AllocImmutableSamplers(_, _)
\* lines 1693-1703: per binding with immutable samplers, an array allocated
\* directly and appended to readMemories (counts: the array lengths)
AllocImmutableSamplers(b, counts) ==
  IF counts = <<>> THEN b
  ELSE IF Head(counts) = 0 THEN AllocImmutableSamplers(b, Tail(counts))
  ELSE LET b1 == AllocDataOrPanic(b, Head(counts))
       IN AllocImmutableSamplers([b1 EXCEPT !.readMemories = Append(@, LastAlloc(b1).id)],
                                 Tail(counts))

\* createDescriptorSetLayout(dsl)
createDescriptorSetLayout ==
  /\ At("createDescriptorSetLayout", "start")
  /\ EmitFrom(AllocImmutableSamplers(sb, L.obj.ImmutableSamplers), <<"r", "r", "w">>,
              Create("vkCreateDescriptorSetLayout", "DescriptorSetLayouts",
                     {L.obj.VulkanHandle}, {}))
  /\ Return
  /\ RoutineFrame

\* createPipelineLayout(pl)
createPipelineLayout ==
  /\ At("createPipelineLayout", "start")
  /\ Emit(<<"r", "r", "r", "w">>,
          Create("vkCreatePipelineLayout", "PipelineLayouts", {L.obj.VulkanHandle},
                 UNION {Dep("DescriptorSetLayouts", h) : h \in Range(L.obj.SetLayouts)}))
  /\ Return
  /\ RoutineFrame

\* createRenderPass(rp): three arrays per subpass, then the create info and
\* its arrays
createRenderPass ==
  /\ At("createRenderPass", "start")
  /\ Emit(Times(3 * L.obj.Subpasses, "r") \o <<"r", "r", "r", "r", "w">>,
          Create("vkCreateRenderPass", "RenderPasses", {L.obj.VulkanHandle}, {}))
  /\ Return
  /\ RoutineFrame

\* createShaderModule(sm)
createShaderModule ==
  /\ At("createShaderModule", "start")
  /\ Emit(<<"r", "r", "w">>,
          Create("vkCreateShaderModule", "ShaderModules", {L.obj.VulkanHandle}, {}))
  /\ Return
  /\ RoutineFrame

\* lines 1835-1840 and 1904-1909: the base pipeline a creation names
BasePipelineOf(p, live) ==
  IF p.BasePipeline # 0 /\ p.BasePipeline \in live THEN p.BasePipeline ELSE 0

\* createComputePipeline(cp)
createComputePipeline ==
  /\ \/ /\ At("createComputePipeline", "start")
        /\ Silent
        /\ IF L.obj.Module.VulkanHandle \notin sb.newState.ShaderModules
           THEN CallL("create", [temporaryShaderModule |-> L.obj.Module.VulkanHandle],
                      "createShaderModule", [obj |-> L.obj.Module])
           ELSE GotoL("create", [temporaryShaderModule |-> 0])
     \/ /\ At("createComputePipeline", "create")
        /\ Emit(<<"r", "r", "w">>,
                [Create("vkCreateComputePipelines", "ComputePipelines",
                        {L.obj.VulkanHandle},
                        Dep("PipelineCaches", L.obj.PipelineCache)
                          \cup Dep("ShaderModules", L.obj.Module.VulkanHandle)
                          \cup Dep("PipelineLayouts", L.obj.PipelineLayout)
                          \cup Dep("ComputePipelines",
                                   BasePipelineOf(L.obj, sb.newState.ComputePipelines)))
                   EXCEPT !.base = BasePipelineOf(L.obj, sb.newState.ComputePipelines)])
        /\ IF L.temporaryShaderModule # 0 THEN Goto("destroy") ELSE Return
     \/ /\ At("createComputePipeline", "destroy")
        /\ Emit(<<>>, Destroy("vkDestroyShaderModule", "ShaderModules",
                              {L.temporaryShaderModule}))
        /\ Return
  /\ RoutineFrame

\* createGraphicsPipeline(gp); the pipelines drawn have no specialization and
\* none of the optional state blocks
createGraphicsPipeline ==
  /\ \/ /\ At("createGraphicsPipeline", "start")
        /\ Silent
        /\ GotoL("stages", [stages |-> L.obj.Stages, temporaryShaderModules |-> <<>>,
                            temporaryPipelineLayout |-> 0, temporaryRenderPass |-> 0])
     \/ /\ At("createGraphicsPipeline", "stages")
        /\ Silent
        /\ IF L.stages = <<>>
           THEN Goto("layout")
           ELSE IF Head(L.stages).VulkanHandle \notin sb.newState.ShaderModules
           THEN CallL("stages",
                      [stages |-> Tail(L.stages),
                       temporaryShaderModules |->
                         Append(L.temporaryShaderModules, Head(L.stages).VulkanHandle)],
                      "createShaderModule", [obj |-> Head(L.stages)])
           ELSE GotoL("stages", [stages |-> Tail(L.stages)])
     \/ /\ At("createGraphicsPipeline", "layout")
        /\ Silent
        /\ IF L.obj.Layout.VulkanHandle \notin sb.newState.PipelineLayouts
           THEN Call("layoutMade", "createPipelineLayout", [obj |-> L.obj.Layout])
           ELSE Goto("renderPass")
     \/ /\ At("createGraphicsPipeline", "layoutMade")
        /\ Silent
        /\ GotoL("renderPass",
                 [temporaryPipelineLayout |->
                    IF L.obj.Layout.VulkanHandle \in sb.newState.PipelineLayouts
                    THEN L.obj.Layout.VulkanHandle ELSE 0])
     \/ /\ At("createGraphicsPipeline", "renderPass")
        /\ Silent
        /\ IF L.obj.RenderPass.VulkanHandle \notin sb.newState.RenderPasses
           THEN Call("renderPassMade", "createRenderPass", [obj |-> L.obj.RenderPass])
           ELSE Goto("create")
     \/ /\ At("createGraphicsPipeline", "renderPassMade")
        /\ Silent
        /\ GotoL("create",
                 [temporaryRenderPass |->
                    IF L.obj.RenderPass.VulkanHandle \in sb.newState.RenderPasses
                    THEN L.obj.RenderPass.VulkanHandle ELSE 0])
     \/ /\ At("createGraphicsPipeline", "create")
        /\ Emit(Times(Len(L.obj.Stages), "r") \o <<"r", "r", "r", "r", "r", "r", "r", "w">>,
                [Create("vkCreateGraphicsPipelines", "GraphicsPipelines",
                        {L.obj.VulkanHandle},
                        Dep("PipelineCaches", L.obj.PipelineCache)
                          \cup UNION {Dep("ShaderModules", m.VulkanHandle) :
                                        m \in Range(L.obj.Stages)}
                          \cup Dep("PipelineLayouts", L.obj.Layout.VulkanHandle)
                          \cup Dep("RenderPasses", L.obj.RenderPass.VulkanHandle)
                          \cup Dep("GraphicsPipelines",
                                   BasePipelineOf(L.obj, sb.newState.GraphicsPipelines)))
                   EXCEPT !.base = BasePipelineOf(L.obj, sb.newState.GraphicsPipelines)])
        /\ Goto("destroyModules")
     \/ /\ At("createGraphicsPipeline", "destroyModules")
        /\ IF L.temporaryShaderModules = <<>>
           THEN Goto("destroyRenderPass") /\ Silent
           ELSE /\ Emit(<<>>, Destroy("vkDestroyShaderModule", "ShaderModules",
                                      {Head(L.temporaryShaderModules)}))
                /\ GotoL("destroyModules",
                         [temporaryShaderModules |-> Tail(L.temporaryShaderModules)])
     \/ /\ At("createGraphicsPipeline", "destroyRenderPass")
        /\ IF L.temporaryRenderPass = 0
           THEN Goto("destroyLayout") /\ Silent
           ELSE /\ Emit(<<>>, Destroy("vkDestroyRenderPass", "RenderPasses",
                                      {L.temporaryRenderPass}))
                /\ Goto("destroyLayout")
     \/ /\ At("createGraphicsPipeline", "destroyLayout")
        /\ IF L.temporaryPipelineLayout = 0
           THEN Return /\ Silent
           ELSE /\ Emit(<<>>, Destroy("vkDestroyPipelineLayout", "PipelineLayouts",
                                      {L.temporaryPipelineLayout}))
                /\ Return
  /\ RoutineFrame

\* createImageView(iv): nothing for a view of an image that is not live
createImageView ==
  /\ At("createImageView", "start")
  /\ IF L.obj.Image \notin sb.newState.Images
     THEN Silent
     ELSE Emit(<<"r", "w">>,
               Create("vkCreateImageView", "ImageViews", {L.obj.VulkanHandle},
                      Dep("Images", L.obj.Image)))
  /\ Return
  /\ RoutineFrame

\* createBufferView(bv): nothing for a view of a buffer that is not live
createBufferView ==
  /\ At("createBufferView", "start")
  /\ IF L.obj.Buffer \notin sb.newState.Buffers
     THEN Silent
     ELSE Emit(<<"r", "w">>,
               Create("vkCreateBufferView", "BufferViews", {L.obj.VulkanHandle},
                      Dep("Buffers", L.obj.Buffer)))
  /\ Return
  /\ RoutineFrame

\* createDescriptorPool(dp)
createDescriptorPool ==
  /\ At("createDescriptorPool", "start")
  /\ Emit(<<"r", "r", "w">>,
          Create("vkCreateDescriptorPool", "DescriptorPools", {L.obj.VulkanHandle}, {}))
  /\ Return
  /\ RoutineFrame

\* createFramebuffer(fb)
createFramebuffer ==
  /\ \/ /\ At("createFramebuffer", "start")
        /\ Silent
        /\ IF L.obj.RenderPass.VulkanHandle \notin sb.newState.RenderPasses
           THEN Call("renderPassMade", "createRenderPass", [obj |-> L.obj.RenderPass])
           ELSE GotoL("create", [temporaryRenderPass |-> 0])
     \/ /\ At("createFramebuffer", "renderPassMade")
        /\ Silent
        /\ GotoL("create",
                 [temporaryRenderPass |->
                    IF L.obj.RenderPass.VulkanHandle \in sb.newState.RenderPasses
                    THEN L.obj.RenderPass.VulkanHandle ELSE 0])
     \/ /\ At("createFramebuffer", "create")
        /\ Emit(<<"r", "r", "w">>,
                Create("vkCreateFramebuffer", "Framebuffers", {L.obj.VulkanHandle},
                       Dep("RenderPasses", L.obj.RenderPass.VulkanHandle)
                         \cup UNION {Dep("ImageViews", v) : v \in Range(L.obj.ImageAttachments)}))
        /\ IF L.temporaryRenderPass # 0 THEN Goto("destroy") ELSE Return
     \/ /\ At("createFramebuffer", "destroy")
        /\ Emit(<<>>, Destroy("vkDestroyRenderPass", "RenderPasses", {L.temporaryRenderPass}))
        /\ Return
  /\ RoutineFrame

\* every element that is not null is written, live or not
DescriptorWritten_Dangling(e, ns) ==
  IF e.Kind = "image"
  THEN /\ ~(e.Sampler = 0 /\ e.ImageView = 0)
       /\ ~(e.Combined /\ (e.Sampler = 0 \/ e.ImageView = 0))
  ELSE IF e.Kind = "buffer" THEN e.Buffer # 0
  ELSE e.BufferView # 0

\* lines 2290-2394: is element e of a descriptor set written? A null
\* element and an element naming an object that is not live are skipped
DescriptorWritten(e, ns) ==
  IF e.Kind = "image"
  THEN /\ ~(e.Sampler = 0 /\ e.ImageView = 0)
       /\ ~(e.Combined /\ (e.Sampler = 0 \/ e.ImageView = 0))
       /\ ~(e.Sampler # 0 /\ e.Sampler \notin ns.Samplers)
       /\ ~(e.ImageView # 0 /\ e.ImageView \notin ns.ImageViews)
  ELSE IF e.Kind = "buffer"
  THEN e.Buffer # 0 /\ e.Buffer \in ns.Buffers
  ELSE e.BufferView # 0 /\ e.BufferView \in ns.BufferViews

\* the handles a written element names
DescriptorDeps(e) ==
  IF e.Kind = "image" THEN Dep("Samplers", e.Sampler) \cup Dep("ImageViews", e.ImageView)
  ELSE IF e.Kind = "buffer" THEN Dep("Buffers", e.Buffer)
  ELSE Dep("BufferViews", e.BufferView)

\* createDescriptorSet(ds): nothing for a set whose pool is not live
createDescriptorSet ==
  /\ \/ /\ At("createDescriptorSet", "start")
        /\ IF L.obj.DescriptorPool \notin sb.newState.DescriptorPools
           THEN Return /\ Silent
           ELSE /\ Emit(<<"r", "r", "w">>,
                        Create("vkAllocateDescriptorSets", "DescriptorSets",
                               {L.obj.VulkanHandle},
                               Dep("DescriptorPools", L.obj.DescriptorPool)
                                 \cup Dep("DescriptorSetLayouts", L.obj.Layout)))
                /\ Goto("update")
     \/ /\ At("createDescriptorSet", "update")
        /\ LET writes == {i \in 1..Len(L.obj.Bindings) :
                            DescriptorWritten(L.obj.Bindings[i], sb.newState)}
           IN Emit(Times(Cardinality(writes), "r") \o <<"r">>,
                   Other("vkUpdateDescriptorSets",
                         Dep("DescriptorSets", L.obj.VulkanHandle)
                           \cup UNION {DescriptorDeps(L.obj.Bindings[i]) : i \in writes}))
        /\ Return
  /\ RoutineFrame

\* createQueryPool(qp): the queries that are not inactive are begun, and
\* ended when complete, on a one-shot command buffer
createQueryPool ==
  /\ \/ /\ At("createQueryPool", "start")
        /\ Emit(<<"r", "w">>,
                Create("vkCreateQueryPool", "QueryPools", {L.obj.VulkanHandle}, {}))
        /\ IF \E i \in 1..Len(L.obj.Status) : L.obj.Status[i] # "INACTIVE"
           THEN Goto("queue") ELSE Return
     \/ /\ At("createQueryPool", "queue")
        /\ Silent
        /\ \E queue \in getQueueFor(NilQueue, L.obj.Device, FALSE, {}) :
             CallL("queries", [queue |-> queue, i |-> 1],
                   "getCommandBuffer", [queue |-> queue])
     \/ /\ At("createQueryPool", "queries")
        /\ IF L.i > Len(L.obj.Status)
           THEN /\ Silent
                /\ Call("return", "endSubmitAndDestroyCommandBuffer",
                        [queue |-> L.queue, commandBuffer |-> L.commandBuffer,
                         commandPool |-> L.commandPool])
           ELSE IF L.obj.Status[L.i] # "INACTIVE"
           THEN /\ Emit(<<>>, Other("vkCmdBeginQuery",
                                    Dep("CommandBuffers", L.commandBuffer)
                                      \cup Dep("QueryPools", L.obj.VulkanHandle)))
                /\ Goto("endQuery")
           ELSE Silent /\ GotoL("queries", [i |-> L.i + 1])
     \/ /\ At("createQueryPool", "endQuery")
        /\ IF L.obj.Status[L.i] = "COMPLETE"
           THEN Emit(<<>>, Other("vkCmdEndQuery",
                                 Dep("CommandBuffers", L.commandBuffer)
                                   \cup Dep("QueryPools", L.obj.VulkanHandle)))
           ELSE Silent
        /\ GotoL("queries", [i |-> L.i + 1])
     \/ /\ At("createQueryPool", "return")
        /\ Silent
        /\ Return
  /\ RoutineFrame

\* AddCommand that rebuilds every sub-command
AddCommand_NeverFails(ref) == FALSE

\* line 2507: AddCommand returns an error for a sub-command it cannot
\* rebuild
AddCommand(ref) == ~ref.Valid

\* a recording that is always ended
endsRecording_Always(cb) == TRUE

\* line 2519: only a completed recording is ended
endsRecording(cb) == cb.Recording = "COMPLETED"

\* createCommandBuffer(cb, level): nothing for a buffer of the other level;
\* a sub-command AddCommand cannot rebuild ends the recording
createCommandBuffer ==
  /\ \/ /\ At("createCommandBuffer", "start")
        /\ IF L.obj.Level # L.level
           THEN Return /\ Silent
           ELSE /\ Emit(<<"r", "w">>,
                        Create("vkAllocateCommandBuffers", "CommandBuffers",
                               {L.obj.VulkanHandle}, Dep("CommandPools", L.obj.Pool)))
                /\ IF L.obj.Recording = "NOT_STARTED" THEN Return ELSE Goto("begin")
     \/ /\ At("createCommandBuffer", "begin")
        /\ Emit((IF L.obj.Inherited THEN <<"r">> ELSE <<>>) \o <<"r">>,
                Other("vkBeginCommandBuffer", Dep("CommandBuffers", L.obj.VulkanHandle)))
        /\ GotoL("commands", [i |-> 1])
     \/ /\ At("createCommandBuffer", "commands")
        /\ IF L.i > Len(L.obj.CommandReferences)
           THEN Silent /\ Goto("end")
           ELSE IF AddCommand(L.obj.CommandReferences[L.i])
           THEN Silent /\ Return
           ELSE /\ Emit(<<>>, Other(L.obj.CommandReferences[L.i].Name,
                                    Dep("CommandBuffers", L.obj.VulkanHandle)))
                /\ GotoL("commands", [i |-> L.i + 1])
     \/ /\ At("createCommandBuffer", "end")
        /\ IF endsRecording(L.obj)
           THEN Emit(<<>>, Other("vkEndCommandBuffer",
                                 Dep("CommandBuffers", L.obj.VulkanHandle)))
           ELSE Silent
        /\ Return
  /\ RoutineFrame

----------------------------------------------------------------------------
(* RebuildState *)

\* lines 52-174: the stages in order; per stage the table walked, the
\* routine called on each of its objects, and the level argument of
\* createCommandBuffer
Stages ==
  << [cat |-> "Instances", fn |-> "createInstance"],
     [cat |-> "PhysicalDevices", fn |-> "createPhysicalDevices"],
     [cat |-> "Surfaces", fn |-> "createSurface"],
     [cat |-> "Devices", fn |-> "createDevice"],
     [cat |-> "Queues", fn |-> "createQueue"],
     [cat |-> "Swapchains", fn |-> "createSwapchain"],
     [cat |-> "DeviceMemories", fn |-> "createDeviceMemory"],
     [cat |-> "Buffers", fn |-> "createBuffer"],
     [cat |-> "Images", fn |-> "createImage"],
     [cat |-> "Samplers", fn |-> "createSampler"],
     [cat |-> "Fences", fn |-> "createFence"],
     [cat |-> "Semaphores", fn |-> "createSemaphore"],
     [cat |-> "Events", fn |-> "createEvent"],
     [cat |-> "CommandPools", fn |-> "createCommandPool"],
     [cat |-> "PipelineCaches", fn |-> "createPipelineCache"],
     [cat |-> "DescriptorSetLayouts", fn |-> "createDescriptorSetLayout"],
     [cat |-> "PipelineLayouts", fn |-> "createPipelineLayout"],
     [cat |-> "RenderPasses", fn |-> "createRenderPass"],
     [cat |-> "ShaderModules", fn |-> "createShaderModule"],
     [cat |-> "ComputePipelines", fn |-> "createComputePipeline"],
     [cat |-> "GraphicsPipelines", fn |-> "createGraphicsPipeline"],
     [cat |-> "ImageViews", fn |-> "createImageView"],
     [cat |-> "BufferViews", fn |-> "createBufferView"],
     [cat |-> "DescriptorPools", fn |-> "createDescriptorPool"],
     [cat |-> "Framebuffers", fn |-> "createFramebuffer"],
     [cat |-> "DescriptorSets", fn |-> "createDescriptorSet"],
     [cat |-> "QueryPools", fn |-> "createQueryPool"],
     [cat |-> "CommandBuffers", fn |-> "createCommandBuffer"],
     [cat |-> "CommandBuffers", fn |-> "createCommandBuffer"] >>

\* the position of the stage of a category (the first one for command buffers)
StageOf(cat) == Min({i \in 1..Len(Stages) : Stages[i].cat = cat})

\* the level argument of the two command buffer stages
LevelOf(i) == IF i = Len(Stages) THEN "PRIMARY" ELSE "SECONDARY"

IsPipelineStage(i) == Stages[i].cat \in {"ComputePipelines", "GraphicsPipelines"}

\* the keys the loop of stage i walks: Keys() of the table, and one call of
\* createPhysicalDevices on the whole table
StageKeys(i) ==
  IF Stages[i].cat = "PhysicalDevices" THEN <<0>> ELSE Keys(s[Stages[i].cat])

\* the arguments of the call stage i makes for key k
StageArgs(i, k) ==
  IF Stages[i].cat = "PhysicalDevices" THEN [obj |-> 0]
  ELSE IF Stages[i].cat = "DeviceMemories"
  THEN [obj |-> s.DeviceMemories[k], allowDedicatedNV |-> FALSE]
  ELSE IF Stages[i].cat = "CommandBuffers"
  THEN [obj |-> s.CommandBuffers[k], level |-> LevelOf(i)]
  ELSE [obj |-> s[Stages[i].cat][k]]

UnchangedResolver ==
  UNCHANGED <<compute, pipelines, unhandledPipelines, handledPipelines, numHandled,
              iter, rpc, caller>>

\* RebuildState between two routine calls: enter the next stage (the
\* pipeline stages call GetPipelinesInOrder), take the order
\* GetPipelinesInOrder returned, call the stage's routine on the next key,
\* or return after the last stage
RebuildState ==
  /\ stack = <<>>
  /\ cur = NoCmd
  /\ stage <= Len(Stages)
  /\ \/ /\ todo = <<>>
        /\ rpc = "idle"
        /\ stage' = stage + 1
        /\ IF stage < Len(Stages) /\ IsPipelineStage(stage + 1)
           THEN /\ GetPipelinesInOrder_Enter(Stages[stage + 1].cat = "ComputePipelines",
                                             "RebuildState")
                /\ todo' = todo
           ELSE /\ todo' = IF stage < Len(Stages) THEN StageKeys(stage + 1) ELSE <<>>
                /\ UnchangedResolver
        /\ UNCHANGED stack
     \/ /\ rpc = "done"
        /\ caller = "RebuildState"
        /\ todo' = pipelines
        /\ pipelines' = <<>>
        /\ handledPipelines' = {}
        /\ numHandled' = 0
        /\ rpc' = "idle"
        /\ UNCHANGED <<stage, stack, compute, unhandledPipelines, iter, caller>>
     \/ /\ todo # <<>>
        /\ rpc = "idle"
        /\ stack' = <<[fn |-> Stages[stage].fn, pc |-> "start",
                       l |-> StageArgs(stage, Head(todo))]>>
        /\ todo' = Tail(todo)
        /\ UNCHANGED stage
        /\ UnchangedResolver
  /\ UNCHANGED <<s, bnd, fcall, peer, sb, cur>>
----------------------------------------------------------------------------
(* The old State *)

\* a State with no object
EmptyState == [c \in Categories |-> EmptyMap]

\* the pipeline tables drawn for GetPipelinesInOrder: every base handle in
\* 0..MaxPipelines+1 (0 is no base, MaxPipelines+1 is a destroyed pipeline)
PipelineTables ==
  UNION {[1..n -> [BasePipeline : 0..MaxPipelines + 1]] : n \in 0..MaxPipelines}

\* the ways a snapshot drawn for RebuildState departs from the plain one
Deviations ==
  {"SurfaceDestroyed", "NoQueue", "NeverQueued", "MemoryMapped", "MemoryDedicated",
   "BufferInfoDedicated", "BufferUnbound", "BufferDestroyed", "BufferLarge",
   "ImageUnbound",
   "ImageGeneral", "ImageMultisampled", "ImageAttachment", "ImageStorage",
   "ImageSampled", "ImageDestroyed", "ImageViewDestroyed",
   "Signaled", "ImmutableSamplers", "SetLayoutDestroyed", "PipelineLayoutDestroyed",
   "RenderPassDestroyed", "ShaderModuleDestroyed", "ComputeCycle", "ComputeStall",
   "ComputeBaseDestroyed", "GraphicsCycle", "DescriptorPoolDestroyed", "QueryActive",
   "CommandBufferRecording", "CommandBufferNotStarted", "CommandInvalid"}

\* 1 :> x, without the operator of TLC
One(k, x) == [i \in {k} |-> x]

\* the table t without the objects the state has destroyed
Unless(destroyed, t) == IF destroyed THEN EmptyMap ELSE t

\* the snapshot with the deviations in F: one device with one queue, and in
\* every category one object that refers to the objects of the categories
\* before it; a destroyed object is absent from its table while the objects
\* that referred to it keep its handle
Snapshot(F) ==
  LET queue == [VulkanHandle |-> 1, Device |-> 1, Family |-> 0, Index |-> 0]
      queue2 == [VulkanHandle |-> 2, Device |-> 1, Family |-> 1, Index |-> 0]
      lastBound == IF "NoQueue" \in F \/ "NeverQueued" \in F THEN NilQueue ELSE queue
      memory(h) == [VulkanHandle |-> h, Device |-> 1,
                    DedicatedAllocationNV |-> (h = 1 /\ "MemoryDedicated" \in F),
                    Mapped |-> (h = 1 /\ "MemoryMapped" \in F)]
      image == [VulkanHandle |-> 1, Device |-> 1, IsSwapchainImage |-> FALSE,
                BoundMemory |-> IF "ImageUnbound" \in F THEN NilMemory ELSE memory(2),
                LastBoundQueue |-> lastBound,
                MemoryRequirements |-> [Size |-> 2, Alignment |-> 1],
                Info |-> [Layout |-> IF F \cap {"ImageGeneral", "ImageMultisampled",
                                                "ImageAttachment", "ImageStorage",
                                                "ImageSampled"} # {}
                                     THEN "GENERAL" ELSE "UNDEFINED",
                          Usage |-> IF "ImageAttachment" \in F
                                    THEN {"COLOR_ATTACHMENT", "STORAGE", "SAMPLED"}
                                    ELSE IF "ImageStorage" \in F THEN {"STORAGE", "SAMPLED"}
                                    ELSE IF "ImageSampled" \in F THEN {"SAMPLED"}
                                    ELSE {"TRANSFER_DST", "COLOR_ATTACHMENT", "SAMPLED"},
                          Samples |-> IF "ImageMultisampled" \in F THEN 4 ELSE 1,
                          DedicatedAllocationNV |-> FALSE, QueueFamilyIndices |-> {0}]]
      swapchainImage == [VulkanHandle |-> 2, Device |-> 1, IsSwapchainImage |-> TRUE,
                         BoundMemory |-> NilMemory, LastBoundQueue |-> lastBound,
                         MemoryRequirements |-> [Size |-> 2, Alignment |-> 1],
                         Info |-> [Layout |-> "PRESENT_SRC", Samples |-> 1,
                                   Usage |-> {"COLOR_ATTACHMENT"},
                                   DedicatedAllocationNV |-> FALSE,
                                   QueueFamilyIndices |-> {0}]]
      module == [VulkanHandle |-> 1, Device |-> 1]
      layout == [VulkanHandle |-> 1, Device |-> 1, SetLayouts |-> <<1>>]
      renderPass == [VulkanHandle |-> 1, Device |-> 1, Subpasses |-> 1]
      computePipeline(h, base) ==
        [VulkanHandle |-> h, Device |-> 1, BasePipeline |-> base, Module |-> module,
         PipelineLayout |-> 1, PipelineCache |-> 1]
      graphicsPipeline(h, base) ==
        [VulkanHandle |-> h, Device |-> 1, BasePipeline |-> base, Stages |-> <<module>>,
         Layout |-> layout, RenderPass |-> renderPass, PipelineCache |-> 0]
      signaled == "Signaled" \in F
      commandBuffer(h, level, recording) ==
        [VulkanHandle |-> h, Device |-> 1, Pool |-> 1, Level |-> level,
         Recording |-> recording, Inherited |-> (level = "SECONDARY"),
         CommandReferences |-> <<[Name |-> "vkCmdBindPipeline", Valid |-> TRUE],
                                 [Name |-> "vkCmdDispatch",
                                  Valid |-> "CommandInvalid" \notin F],
                                 [Name |-> "vkCmdDraw", Valid |-> TRUE]>>]
  IN [Instances |-> One(1, [VulkanHandle |-> 1]),
      PhysicalDevices |-> One(1, [VulkanHandle |-> 1, Instance |-> 1]),
      Surfaces |-> Unless("SurfaceDestroyed" \in F,
                          One(1, [VulkanHandle |-> 1, Instance |-> 1, Type |-> "WIN32"])),
      Devices |-> One(1, [VulkanHandle |-> 1, PhysicalDevice |-> 1, Families |-> {0, 1}]),
      Queues |-> Unless("NoQueue" \in F, <<queue, queue2>>),
      Swapchains |-> One(1, [VulkanHandle |-> 1, Device |-> 1,
                             Surface |-> [VulkanHandle |-> 1],
                             SwapchainImages |-> One(0, swapchainImage)]),
      DeviceMemories |-> [h \in {1, 2} |-> memory(h)],
      Buffers |-> Unless("BufferDestroyed" \in F,
                    One(1, [VulkanHandle |-> 1, Device |-> 1,
                            Memory |-> IF "BufferUnbound" \in F THEN NilMemory
                                       ELSE memory(1),
                            LastBoundQueue |-> lastBound,
                            Info |-> [Size |-> IF "BufferLarge" \in F THEN 16 ELSE 2,
                                      DedicatedAllocationNV |-> "BufferInfoDedicated" \in F,
                                      QueueFamilyIndices |-> {0}]])),
      Images |-> IF "ImageDestroyed" \in F THEN One(2, swapchainImage)
                 ELSE [h \in {1, 2} |-> IF h = 1 THEN image ELSE swapchainImage],
      Samplers |-> One(1, [VulkanHandle |-> 1, Device |-> 1]),
      Fences |-> One(1, [VulkanHandle |-> 1, Device |-> 1, Signaled |-> signaled]),
      Semaphores |-> One(1, [VulkanHandle |-> 1, Device |-> 1, Signaled |-> signaled,
                             LastQueue |-> 1]),
      Events |-> One(1, [VulkanHandle |-> 1, Device |-> 1, Signaled |-> signaled]),
      CommandPools |-> One(1, [VulkanHandle |-> 1, Device |-> 1]),
      PipelineCaches |-> One(1, [VulkanHandle |-> 1, Device |-> 1]),
      DescriptorSetLayouts |->
        Unless("SetLayoutDestroyed" \in F,
               One(1, [VulkanHandle |-> 1, Device |-> 1,
                       ImmutableSamplers |-> IF "ImmutableSamplers" \in F
                                             THEN <<0, 2>> ELSE <<0>>])),
      PipelineLayouts |-> Unless("PipelineLayoutDestroyed" \in F, One(1, layout)),
      RenderPasses |-> Unless("RenderPassDestroyed" \in F, One(1, renderPass)),
      ShaderModules |-> Unless("ShaderModuleDestroyed" \in F, One(1, module)),
      ComputePipelines |->
        IF "ComputeBaseDestroyed" \in F THEN One(2, computePipeline(2, 1))
        ELSE [h \in {1, 2} |->
                computePipeline(h, IF "ComputeCycle" \in F THEN 3 - h
                                   ELSE IF "ComputeStall" \in F THEN (IF h = 1 THEN 0 ELSE 3)
                                   ELSE h - 1)],
      GraphicsPipelines |->
        IF "GraphicsCycle" \in F THEN [h \in {1, 2} |-> graphicsPipeline(h, 3 - h)]
        ELSE One(1, graphicsPipeline(1, 0)),
      ImageViews |-> Unless("ImageViewDestroyed" \in F,
                            One(1, [VulkanHandle |-> 1, Device |-> 1, Image |-> 1])),
      BufferViews |-> One(1, [VulkanHandle |-> 1, Device |-> 1, Buffer |-> 1]),
      DescriptorPools |-> Unless("DescriptorPoolDestroyed" \in F,
                                 One(1, [VulkanHandle |-> 1, Device |-> 1])),
      Framebuffers |-> One(1, [VulkanHandle |-> 1, Device |-> 1, RenderPass |-> renderPass,
                               ImageAttachments |-> <<1>>]),
      DescriptorSets |->
        One(1, [VulkanHandle |-> 1, Device |-> 1, DescriptorPool |-> 1, Layout |-> 1,
                Bindings |->
                  << [Kind |-> "image", Combined |-> TRUE, Sampler |-> 1, ImageView |-> 1,
                      Buffer |-> 0, BufferView |-> 0],
                     [Kind |-> "image", Combined |-> FALSE, Sampler |-> 0, ImageView |-> 0,
                      Buffer |-> 0, BufferView |-> 0],
                     [Kind |-> "buffer", Combined |-> FALSE, Sampler |-> 0, ImageView |-> 0,
                      Buffer |-> 1, BufferView |-> 0],
                     [Kind |-> "texel", Combined |-> FALSE, Sampler |-> 0, ImageView |-> 0,
                      Buffer |-> 0, BufferView |-> 1] >>]),
      QueryPools |-> One(1, [VulkanHandle |-> 1, Device |-> 1,
                             Status |-> IF "QueryActive" \in F
                                        THEN <<"ACTIVE", "COMPLETE", "INACTIVE">>
                                        ELSE <<"INACTIVE">>]),
      CommandBuffers |->
        [h \in {1, 2} |->
           IF h = 1
           THEN commandBuffer(1, "PRIMARY",
                              IF "CommandBufferRecording" \in F THEN "RECORDING"
                              ELSE IF "CommandBufferNotStarted" \in F THEN "NOT_STARTED"
                              ELSE "COMPLETED")
           ELSE commandBuffer(2, "SECONDARY", "COMPLETED")]]

RECURSIVE SubsetsUpTo(_, _)
\* the subsets of S of at most n elements
SubsetsUpTo(S, n) ==
  IF n = 0 THEN {{}}
  ELSE LET smaller == SubsetsUpTo(S, n - 1)
       IN smaller \cup {A \cup {x} : A \in smaller, x \in S}

\* the snapshots drawn for RebuildState
Snapshots == {Snapshot(F) : F \in SubsetsUpTo(Deviations, MaxDeviations)}

----------------------------------------------------------------------------
(* Specifications *)

vars == <<s, compute, pipelines, unhandledPipelines, handledPipelines, numHandled,
          iter, rpc, caller, bnd, fcall, peer, stage, todo, stack, cur, sb>>

ResolverIdle ==
  /\ compute = FALSE
  /\ pipelines = <<>>
  /\ unhandledPipelines = EmptyMap
  /\ handledPipelines = {}
  /\ numHandled = 0
  /\ iter = {}
  /\ rpc = "idle"

\* no RebuildState is running
BuilderIdle ==
  /\ stage = Len(Stages) + 1
  /\ todo = <<>>
  /\ stack = <<>>
  /\ cur = NoCmd
  /\ sb = NewBuilder

\* lines 42-51: RebuildState called on a snapshot, the builder constructed
Init ==
  /\ s \in Snapshots
  /\ ResolverIdle
  /\ caller = "RebuildState"
  /\ bnd = BndIdle
  /\ fcall = NoCall
  /\ peer = NoPeer
  /\ stage = 0
  /\ todo = <<>>
  /\ stack = <<>>
  /\ cur = NoCmd
  /\ sb = NewBuilder

Next ==
  \/ RebuildState
  \/ Write
  \/ AllocPanics
  \/ GetPipelinesInOrder_Loop
  \/ GetPipelinesInOrder_Range
  \/ GetPipelinesInOrder_Check
  \/ getCommandBuffer
  \/ endSubmitAndDestroyCommandBuffer
  \/ transitionImage
  \/ allocAndFillScratchBuffer
  \/ freeScratchBuffer
  \/ createInstance
  \/ createPhysicalDevices
  \/ createSurface
  \/ createDevice
  \/ createQueue
  \/ createSwapchain
  \/ createDeviceMemory
  \/ createBuffer
  \/ createImage
  \/ createSampler
  \/ createFence
  \/ createSemaphore
  \/ createEvent
  \/ createCommandPool
  \/ createPipelineCache
  \/ createDescriptorSetLayout
  \/ createPipelineLayout
  \/ createRenderPass
  \/ createShaderModule
  \/ createComputePipeline
  \/ createGraphicsPipeline
  \/ createImageView
  \/ createBufferView
  \/ createDescriptorPool
  \/ createFramebuffer
  \/ createDescriptorSet
  \/ createQueryPool
  \/ createCommandBuffer

Spec == Init /\ [][Next]_vars

\* what a RebuildState call owns: its locals, its builder and the locals of
\* the GetPipelinesInOrder it calls
Private ==
  [compute |-> compute, pipelines |-> pipelines,
   unhandledPipelines |-> unhandledPipelines, handledPipelines |-> handledPipelines,
   numHandled |-> numHandled, iter |-> iter, rpc |-> rpc, caller |-> caller,
   stage |-> stage, todo |-> todo, stack |-> stack, cur |-> cur, sb |-> sb]

\* lines 40-51: two calls of RebuildState on one State, each with a new state
\* and a stateBuilder of its own
InitConcurrent ==
  /\ s = Snapshot({})
  /\ ResolverIdle
  /\ caller = "RebuildState"
  /\ bnd = BndIdle
  /\ fcall = NoCall
  /\ stage = 0
  /\ todo = <<>>
  /\ stack = <<>>
  /\ cur = NoCmd
  /\ sb = NewBuilder
  /\ peer = Private

\* the scheduler takes the running call off the processor and resumes the
\* other one where it was
Switch ==
  /\ peer # NoPeer
  /\ peer' = Private
  /\ compute' = peer.compute
  /\ pipelines' = peer.pipelines
  /\ unhandledPipelines' = peer.unhandledPipelines
  /\ handledPipelines' = peer.handledPipelines
  /\ numHandled' = peer.numHandled
  /\ iter' = peer.iter
  /\ rpc' = peer.rpc
  /\ caller' = peer.caller
  /\ stage' = peer.stage
  /\ todo' = peer.todo
  /\ stack' = peer.stack
  /\ cur' = peer.cur
  /\ sb' = peer.sb
  /\ UNCHANGED <<s, bnd, fcall>>

NextConcurrent ==
  \/ Next
  \/ Switch

SpecConcurrent == InitConcurrent /\ [][NextConcurrent]_vars

\* GetPipelinesInOrder called directly on a State
InitPipelines ==
  /\ ResolverIdle
  /\ caller = "direct"
  /\ BuilderIdle
  /\ bnd = BndIdle
  /\ fcall = NoCall
  /\ peer = NoPeer
  /\ \E isCompute \in BOOLEAN, t \in PipelineTables :
       s = IF isCompute THEN [EmptyState EXCEPT !.ComputePipelines = t]
                        ELSE [EmptyState EXCEPT !.GraphicsPipelines = t]

CallGetPipelinesInOrder ==
  /\ rpc = "idle"
  /\ caller = "direct"
  /\ \E isCompute \in BOOLEAN : GetPipelinesInOrder_Enter(isCompute, "direct")
  /\ UNCHANGED <<s, bnd, fcall, peer, stage, todo, stack, cur, sb>>

NextPipelines ==
  \/ CallGetPipelinesInOrder
  \/ GetPipelinesInOrder_Loop
  \/ GetPipelinesInOrder_Range
  \/ GetPipelinesInOrder_Check

SpecPipelines == InitPipelines /\ [][NextPipelines]_vars

\* a running call takes its next step
FairSpecPipelines == InitPipelines /\ [][NextPipelines]_vars /\ WF_vars(NextPipelines)

InitBound ==
  /\ ResolverIdle
  /\ caller = "direct"
  /\ BuilderIdle
  /\ fcall = NoCall
  /\ peer = NoPeer
  /\ s = EmptyState
  /\ \E o \in 0..MaxOffset, z \in 0..MaxSize, b \in BindingSets :
       bnd = [offset |-> o, size |-> z, bindings |-> b, called |-> FALSE, result |-> FALSE]

NextBound ==
  CallIsFullyBound /\ UNCHANGED <<s, compute, pipelines, unhandledPipelines,
                                  handledPipelines, numHandled, iter, rpc, caller,
                                  fcall, peer, stage, todo, stack, cur, sb>>

SpecBound == InitBound /\ [][NextBound]_vars

\* the sparse bindings drawn for a buffer, and the opaque bindings drawn for
\* an image: one or two
SparseBindingSets == {b \in BindingSets : Cardinality(DOMAIN b) \in 1..2}

\* the sparse memory requirements drawn for an image: one for the metadata
\* aspect and one for another aspect, in either order
SparseRequirements ==
  LET meta == {[Metadata |-> TRUE, SingleMipTail |-> TRUE, ImageMipTailOffset |-> o,
                ImageMipTailSize |-> 1, ImageMipTailStride |-> 0,
                ImageMipTailFirstLod |-> 0] : o \in 0..1}
      other == {[Metadata |-> FALSE, SingleMipTail |-> single, ImageMipTailOffset |-> o,
                 ImageMipTailSize |-> z, ImageMipTailStride |-> 2,
                 ImageMipTailFirstLod |-> 1] :
                  single \in BOOLEAN, o \in 0..2, z \in 1..2}
  IN {<<m, r>> : m \in meta, r \in other} \cup {<<r, m>> : m \in meta, r \in other}

\* lines 46-157: the per-type subs, each with the type of its parameter and
\* the type name it passes to vkErrorInvalidHandle
Wrappers ==
  <<[sub |-> "vkErrorInvalidInstance", param |-> "VkInstance", handleType |-> "VkInstance"],
    [sub |-> "vkErrorInvalidPhysicalDevice", param |-> "VkPhysicalDevice", handleType |-> "VkPhysicalDevice"],
    [sub |-> "vkErrorInvalidDevice", param |-> "VkDevice", handleType |-> "VkDevice"],
    [sub |-> "vkErrorInvalidQueue", param |-> "VkQueue", handleType |-> "VkQueue"],
    [sub |-> "vkErrorInvalidCommandBuffer", param |-> "VkCommandBuffer", handleType |-> "VkCommandBuffer"],
    [sub |-> "vkErrorInvalidDeviceMemory", param |-> "VkDeviceMemory", handleType |-> "VkDeviceMemory"],
    [sub |-> "vkErrorInvalidBuffer", param |-> "VkBuffer", handleType |-> "VkBuffer"],
    [sub |-> "vkErrorInvalidBufferView", param |-> "VkBufferView", handleType |-> "VkBufferView"],
    [sub |-> "vkErrorInvalidImage", param |-> "VkImage", handleType |-> "VkImage"],
    [sub |-> "vkErrorInvalidImageView", param |-> "VkImageView", handleType |-> "VkImageView"],
    [sub |-> "vkErrorInvalidShaderModule", param |-> "VkShaderModule", handleType |-> "VkShaderModule"],
    [sub |-> "vkErrorInvalidPipeline", param |-> "VkPipeline", handleType |-> "VkPipeline"],
    [sub |-> "vkErrorInvalidPipelineLayout", param |-> "VkPipelineLayout", handleType |-> "VkPipelineLayout"],
    [sub |-> "vkErrorInvalidSampler", param |-> "VkSampler", handleType |-> "VkSampler"],
    [sub |-> "vkErrorInvalidDescriptorSet", param |-> "VkDescriptorSet", handleType |-> "VkDescriptorSet"],
    [sub |-> "vkErrorInvalidDescriptorSetLayout", param |-> "VkDescriptorSetLayout", handleType |-> "VkDescriptorSetLayout"],
    [sub |-> "vkErrorInvalidDescriptorPool", param |-> "VkDescriptorPool", handleType |-> "VkDescriptorPool"],
    [sub |-> "vkErrorInvalidFence", param |-> "VkFence", handleType |-> "VkFence"],
    [sub |-> "vkErrorInvalidSemaphore", param |-> "VkSemaphore", handleType |-> "VkSemaphore"],
    [sub |-> "vkErrorInvalidEvent", param |-> "VkEvent", handleType |-> "VkEvent"],
    [sub |-> "vkErrorInvalidQueryPool", param |-> "VkQueryPool", handleType |-> "VkQueryPool"],
    [sub |-> "vkErrorInvalidFramebuffer", param |-> "VkFramebuffer", handleType |-> "VkFramebuffer"],
    [sub |-> "vkErrorInvalidRenderPass", param |-> "VkRenderPass", handleType |-> "VkRenderPass"],
    [sub |-> "vkErrorInvalidPipelineCache", param |-> "VkPipelineCache", handleType |-> "VkPipelineCache"],
    [sub |-> "vkErrorInvalidCommandPool", param |-> "VkCommandPool", handleType |-> "VkCommandPool"],
    [sub |-> "vkErrorInvalidSurface", param |-> "VkSurfaceKHR", handleType |-> "VkSurfaceKHR"],
    [sub |-> "vkErrorInvalidSwapchain", param |-> "VkSwapchainKHR", handleType |-> "VkSwapchainKHR"],
    [sub |-> "vkErrorInvalidDisplayMode", param |-> "VkDisplayModeKHR", handleType |-> "VkDisplayModeKHR"]>>

\* a sub that never aborts
Aborts_Never(sub) == FALSE

\* lines 159-177: the subs that end with `abort`
Aborts(sub) == sub \in {"vkErrorInvalidHandle", "vkErrorNullPointer"}

\* database.Build that resolves again on every request
Build_Uncached(database, resolves, pair) ==
  IF resolves THEN [obj |-> pair, err |-> FALSE, ran |-> TRUE]
  ELSE [obj |-> "nil", err |-> TRUE, ran |-> FALSE]

\* initial_commands.go line 37 and lines 45-54: database.Build returns what
\* it stored for the resolvable, or else calls Resolve, which fails when the
\* capture does not resolve (lines 46-50) and otherwise holds the pair of
\* GetInitialCommands (lines 51-53); ran: the rebuild ran in this request
Build(database, resolves, pair) ==
  IF database # <<>> THEN [database[1] EXCEPT !.ran = FALSE]
  ELSE IF resolves THEN [obj |-> pair, err |-> FALSE, ran |-> TRUE]
  ELSE [obj |-> "nil", err |-> TRUE, ran |-> FALSE]

\* the surface types of the snapshots: those createSurface has a case for
\* and one it has none for
SurfaceTypes == DOMAIN SurfaceCreate \cup {"DISPLAY"}

\* the Surfaces of the new state before the call: none, or one registered
\* earlier under handle 2
SurfaceTables ==
  {<<>>, 2 :> [VulkanHandle |-> 2, Instance |-> 2, Type |-> "XCB"]}

\* tables of up to three queues on two devices with two families
QueueTables ==
  UNION {{q \in [D -> [VulkanHandle : D, Device : 1..2, Family : 0..1, Index : {0}]] :
            \A h \in D : q[h].VulkanHandle = h} : D \in SUBSET (1..3)}

\* a function of the builder called on its own: the length of the data of a
\* scratch buffer, the arguments of levelSize, the usage of an image
InitCalls ==
  /\ ResolverIdle
  /\ peer = NoPeer
  /\ caller = "direct"
  /\ BuilderIdle
  /\ bnd = BndIdle
  /\ \/ \E n \in 0..MaxPayload :
          fcall = [NoCall EXCEPT !.fn = "allocAndFillScratchBuffer", !.args = [len |-> n]]
     \/ \E sub \in {Wrappers[i].sub : i \in 1..Len(Wrappers)}
                     \cup {"vkErrorInvalidHandle", "vkErrorNullPointer",
                           "vkErrorUnrecognizedExtension",
                           "vkErrorExpectNVDedicatedlyAllocatedHandle"},
           name \in {"VkBuffer", "VkDeviceMemory"}, handle \in 0..2 :
          fcall = [NoCall EXCEPT !.fn = "Mutate",
                                 !.args = [sub |-> sub, name |-> name, handle |-> handle],
                                 !.result = [pc |-> "call", name |-> "", handle |-> 0,
                                             reports |-> <<>>, aborted |-> FALSE,
                                             continued |-> FALSE]]
     \/ \E resolves \in BOOLEAN :
          fcall = [NoCall EXCEPT !.fn = "InitialCommands",
                                 !.args = [resolves |-> resolves],
                                 !.result = [database |-> <<>>, produced |-> <<>>,
                                             returns |-> <<>>]]
     \/ \E handle \in 1..2, instance \in 1..2, type \in SurfaceTypes, before \in SurfaceTables :
          fcall = [NoCall EXCEPT !.fn = "createSurface",
                                 !.args = [Surfaces |-> before,
                                           s |-> [VulkanHandle |-> handle,
                                                  Instance |-> instance, Type |-> type]],
                                 !.result = [cmds |-> <<>>, Surfaces |-> before]]
     \/ \E queues \in QueueTables, last \in 0..3, device \in 1..2, signaled \in BOOLEAN :
          fcall = [NoCall EXCEPT !.fn = "createSemaphore",
                                 !.args = [queues |-> queues,
                                           sem |-> [VulkanHandle |-> 1, Device |-> device,
                                                    Signaled |-> signaled,
                                                    LastQueue |-> last]],
                                 !.result = [submits |-> <<>>]]
     \/ \E queues \in QueueTables, device \in 1..2, has \in BOOLEAN,
           indices \in SUBSET (0..1), sparse \in SUBSET (0..1) :
          \E last \in {q \in Values(queues) : q.Device = device} \cup {NilQueue} :
            fcall = [NoCall EXCEPT !.fn = "bindSparse",
                                   !.args = [queues |-> queues, lastBoundQueue |-> last,
                                             device |-> device,
                                             hasQueueFamilyIndices |-> has,
                                             queueFamilyIndices |-> indices,
                                             sparse |-> sparse],
                                   !.result = [binds |-> <<>>, panicked |-> FALSE]]
     \/ \E queues \in QueueTables, device \in 1..2, has \in BOOLEAN,
           indices \in SUBSET (0..1) :
          \E last \in Values(queues) \cup {NilQueue} :
            fcall = [NoCall EXCEPT !.fn = "getQueueFor",
                                   !.args = [queues |-> queues, lastBoundQueue |-> last,
                                             device |-> device,
                                             hasQueueFamilyIndices |-> has,
                                             queueFamilyIndices |-> indices]]
     \/ \E w \in 1..MaxWidth, h \in 1..MaxHeight, d \in 1..MaxDepth,
           f \in Formats, a \in Aspects :
          fcall = [NoCall EXCEPT !.fn = "levelSize",
                                 !.args = [widthInBlocks |-> w, heightInBlocks |-> h,
                                           depth |-> d, format |-> f, aspect |-> a]]
     \/ \E usage \in SUBSET UsageBits :
          fcall = [NoCall EXCEPT !.fn = "createImage", !.args = [Usage |-> usage]]
     \/ \E q \in [1..MaxInserts -> [base : 0..MaxOffset, size : 1..MaxSize]] :
          fcall = [NoCall EXCEPT !.fn = "Merge",
                                 !.args = [ranges |-> q],
                                 !.result = [done |-> 0, before |-> <<>>, list |-> <<>>]]
     \/ \E r \in BOOLEAN, z \in 1..(MaxOffset + 1), b \in SparseBindingSets :
          fcall = [NoCall EXCEPT !.fn = "createBuffer",
                                 !.args = [sparseResidency |-> r, size |-> z, bindings |-> b]]
     \/ \E r \in BOOLEAN, z \in 1..MaxSize, reqs \in SparseRequirements,
           n \in 1..MaxLayers, b \in SparseBindingSets :
          fcall = [NoCall EXCEPT !.fn = "opaqueRanges",
                                 !.args = [sparseResidency |-> r, size |-> z, reqs |-> reqs,
                                           layers |-> n, bindings |-> b]]
  /\ s = IF fcall.fn \in {"getQueueFor", "createSemaphore"}
         THEN [EmptyState EXCEPT !.Queues = fcall.args.queues]
         ELSE IF fcall.fn = "bindSparse"
         THEN [EmptyState EXCEPT
                 !.Queues = fcall.args.queues,
                 !.Devices = [d \in 1..2 |-> [VulkanHandle |-> d, PhysicalDevice |-> 1,
                                              Families |-> {0, 1}]],
                 !.PhysicalDevices =
                    1 :> [VulkanHandle |-> 1, Instance |-> 1,
                          QueueFamilyProperties |->
                            [f \in 0..1 |-> [SparseBinding |-> f \in fcall.args.sparse]]]]
         ELSE EmptyState

CallFrame ==
  UNCHANGED <<s, compute, pipelines, unhandledPipelines, handledPipelines, numHandled,
              iter, rpc, caller, bnd, peer, stage, todo, stack, cur, sb>>

\* lines 788 and 818: the sizes allocAndFillScratchBuffer gives the buffer and
\* the memory
CallScratchSizes ==
  /\ fcall.fn = "allocAndFillScratchBuffer"
  /\ ~fcall.called
  /\ LET size == fcall.args.len
     IN fcall' = [fcall EXCEPT !.called = TRUE,
                               !.result = [size |-> size, allocSize |-> allocSize(size)]]
  /\ CallFrame

CallLevelSize ==
  /\ fcall.fn = "levelSize"
  /\ ~fcall.called
  /\ LET a == fcall.args
     IN fcall' = [fcall EXCEPT !.called = TRUE,
                               !.result = levelSize(a.widthInBlocks, a.heightInBlocks,
                                                    a.depth, a.format, a.aspect)]
  /\ CallFrame

\* the choice of createImage among the methods of the primer
CallPrimeStrategy ==
  /\ fcall.fn = "createImage"
  /\ ~fcall.called
  /\ LET flags == primeFlags(fcall.args.Usage)
     IN fcall' = [fcall EXCEPT !.called = TRUE,
                               !.result = [flags |-> flags, calls |-> primeCalls(flags)]]
  /\ CallFrame

\* lines 1078-1093: createBuffer builds the copy regions of a buffer with
\* sparse bindings, the range over the map visiting them in any order
CallSparseCopies ==
  /\ fcall.fn = "createBuffer"
  /\ ~fcall.called
  /\ \E order \in Orders(DOMAIN fcall.args.bindings) :
       fcall' = [fcall EXCEPT !.called = TRUE,
                              !.result = [copies |-> sparseCopies(fcall.args.sparseResidency,
                                                                  fcall.args.size,
                                                                  fcall.args.bindings, order),
                                          contents |-> sparseContents(fcall.args.sparseResidency,
                                                                      fcall.args.size,
                                                                      fcall.args.bindings,
                                                                      order)]]
  /\ CallFrame

\* lines 1431-1483: createImage collects the opaque ranges to prime
CallOpaqueRanges ==
  /\ fcall.fn = "opaqueRanges"
  /\ ~fcall.called
  /\ LET a == fcall.args
     IN fcall' = [fcall EXCEPT !.called = TRUE,
                               !.result = [ranges |-> opaqueRanges(a.sparseResidency, a.size,
                                                                   a.reqs, a.layers,
                                                                   a.bindings)]]
  /\ CallFrame

\* lines 229-230: the range of the next allocation is merged into the list
\* (done: the number of ranges merged; before: the list before the last one)
CallMerge ==
  /\ fcall.fn = "Merge"
  /\ fcall.result.done < Len(fcall.args.ranges)
  /\ LET r == fcall.result
     IN fcall' = [fcall EXCEPT !.called = TRUE,
                               !.result = [done |-> r.done + 1, before |-> r.list,
                                           list |-> Merge(r.list,
                                                          fcall.args.ranges[r.done + 1])]]
  /\ CallFrame

\* src/unnamed/part_001 lines 46-177: a mutate step calls one of the error
\* subs; a per-type sub calls vkErrorInvalidHandle; the sub reports through
\* its extern; `abort` ends the mutate step, a return lets it go on
CallErrorSub ==
  /\ fcall.fn = "Mutate"
  /\ LET a == fcall.args
         r == fcall.result
         wrapper == {i \in 1..Len(Wrappers) : Wrappers[i].sub = a.sub}
         extern == CASE r.pc = "vkErrorInvalidHandle" -> "vkErrInvalidHandle"
                     [] r.pc = "vkErrorNullPointer" -> "vkErrNullPointer"
                     [] r.pc = "vkErrorUnrecognizedExtension" -> "vkErrUnrecognizedExtension"
                     [] OTHER -> "vkErrExpectNVDedicatedlyAllocatedHandle"
         withHandle == r.pc \in {"vkErrorInvalidHandle",
                                 "vkErrorExpectNVDedicatedlyAllocatedHandle"}
     IN CASE r.pc = "call" /\ wrapper # {} ->
               fcall' = [fcall EXCEPT
                           !.result = [r EXCEPT
                                         !.pc = "vkErrorInvalidHandle",
                                         !.name = Wrappers[CHOOSE i \in wrapper : TRUE]
                                                    .handleType,
                                         !.handle = a.handle]]
          [] r.pc = "call" /\ wrapper = {} ->
               fcall' = [fcall EXCEPT
                           !.result = [r EXCEPT !.pc = a.sub, !.name = a.name,
                                                !.handle = a.handle]]
          [] r.pc = "abort" ->
               fcall' = [fcall EXCEPT !.called = TRUE,
                                      !.result = [r EXCEPT !.pc = "done", !.aborted = TRUE]]
          [] r.pc = "return" ->
               fcall' = [fcall EXCEPT !.called = TRUE,
                                      !.result = [r EXCEPT !.pc = "done",
                                                           !.continued = TRUE]]
          [] r.pc = "done" -> FALSE
          [] OTHER ->
               fcall' = [fcall EXCEPT
                           !.result = [r EXCEPT
                                         !.pc = IF Aborts(r.pc) THEN "abort" ELSE "return",
                                         !.reports =
                                           Append(r.reports,
                                                  [extern |-> extern, name |-> r.name,
                                                   handle |-> IF withHandle THEN r.handle
                                                              ELSE 0])]]
  /\ CallFrame

\* initial_commands.go lines 36-43: one request for the initial commands of
\* the capture; pair is what the rebuild gives if it runs now (produced: the
\* pairs of the rebuilds that ran; returns: what the requests returned)
CallInitialCommands ==
  /\ fcall.fn = "InitialCommands"
  /\ Len(fcall.result.returns) < MaxInserts
  /\ \E cmds \in {"cmds1", "cmds2"}, ranges \in {"ranges1", "ranges2"} :
       LET r == fcall.result
           x == Build(r.database, fcall.args.resolves, [cmds |-> cmds, ranges |-> ranges])
       IN fcall' = [fcall EXCEPT
                      !.called = TRUE,
                      !.result = [database |-> <<x>>,
                                  produced |-> IF x.ran THEN Append(r.produced, x.obj)
                                               ELSE r.produced,
                                  returns |->
                                    Append(r.returns,
                                           IF x.err
                                           THEN [cmds |-> "nil", ranges |-> "nil",
                                                 err |-> TRUE]
                                           ELSE [cmds |-> x.obj.cmds,
                                                 ranges |-> x.obj.ranges,
                                                 err |-> FALSE])]]
  /\ CallFrame

vkCreateWin32SurfaceKHR_Untyped(Surfaces, instance, handle) ==
  [Surfaces |-> (handle :> [VulkanHandle |-> handle, Instance |-> instance, Type |-> ""])
                  @@ Surfaces,
   pSurface |-> <<handle>>]

\* vulkan_windows.api lines 41-57: the surface is registered under the handle
\* observed at pSurface[0]
vkCreateWin32SurfaceKHR(Surfaces, instance, handle) ==
  [Surfaces |-> (handle :> [VulkanHandle |-> handle, Instance |-> instance,
                            Type |-> "WIN32"]) @@ Surfaces,
   pSurface |-> <<handle>>]

\* lines 440-526 and vulkan_windows.api lines 41-57: createSurface on one
\* surface, and the mutation of the command it writes when the command is
\* vkCreateWin32SurfaceKHR
CallCreateSurface ==
  /\ fcall.fn = "createSurface"
  /\ ~fcall.called
  /\ LET surface == fcall.args.s
         cmds == IF surface.Type \in DOMAIN SurfaceCreate
                 THEN <<[name |-> SurfaceCreate[surface.Type],
                         instance |-> surface.Instance,
                         pSurface |-> <<surface.VulkanHandle>>]>>
                 ELSE <<>>
         mutated == IF cmds # <<>> /\ cmds[1].name = "vkCreateWin32SurfaceKHR"
                    THEN vkCreateWin32SurfaceKHR(fcall.args.Surfaces, cmds[1].instance,
                                                 cmds[1].pSurface[1]).Surfaces
                    ELSE fcall.args.Surfaces
     IN fcall' = [fcall EXCEPT !.called = TRUE,
                               !.result = [cmds |-> cmds, Surfaces |-> mutated]]
  /\ CallFrame

\* lines 1596-1626: the queue submissions createSemaphore emits after
\* vkCreateSemaphore, each with its queue
CallCreateSemaphore ==
  /\ fcall.fn = "createSemaphore"
  /\ ~fcall.called
  /\ \E queue \in SemaphoreQueues(fcall.args.sem) :
       fcall' = [fcall EXCEPT !.called = TRUE,
                              !.result = [submits |-> IF fcall.args.sem.Signaled
                                                      THEN <<queue>> ELSE <<>>]]
  /\ CallFrame

\* lines 1028-1051 and 1350-1396: createBuffer and createImage on a resource
\* with sparse bindings, up to the vkQueueBindSparse: nothing is emitted
\* when getQueueFor finds no queue, and the use of a nil sparse queue panics
\* (binds: the queue of each vkQueueBindSparse emitted)
CallBindSparse ==
  /\ fcall.fn = "bindSparse"
  /\ ~fcall.called
  /\ LET a == fcall.args
     IN \E queue \in getQueueFor(a.lastBoundQueue, a.device, a.hasQueueFamilyIndices,
                                  a.queueFamilyIndices),
           sparseQueue \in getSparseQueueFor(a.lastBoundQueue, a.device,
                                             a.hasQueueFamilyIndices,
                                             a.queueFamilyIndices) :
          fcall' = [fcall EXCEPT
                      !.called = TRUE,
                      !.result = IF queue = NilQueue
                                 THEN [binds |-> <<>>, panicked |-> FALSE]
                                 ELSE IF sparseQueue = NilQueue
                                 THEN [binds |-> <<>>, panicked |-> TRUE]
                                 ELSE [binds |-> <<sparseQueue>>, panicked |-> FALSE]]
  /\ CallFrame

\* lines 925-950: getQueueFor on the queues of the state
CallGetQueueFor ==
  /\ fcall.fn = "getQueueFor"
  /\ ~fcall.called
  /\ \E queue \in getQueueFor(fcall.args.lastBoundQueue, fcall.args.device,
                               fcall.args.hasQueueFamilyIndices,
                               fcall.args.queueFamilyIndices) :
       fcall' = [fcall EXCEPT !.called = TRUE, !.result = [queue |-> queue]]
  /\ CallFrame

NextCalls ==
  \/ CallBindSparse
  \/ CallCreateSurface
  \/ CallCreateSemaphore
  \/ CallInitialCommands
  \/ CallErrorSub
  \/ CallGetQueueFor
  \/ CallMerge
  \/ CallScratchSizes
  \/ CallLevelSize
  \/ CallPrimeStrategy
  \/ CallSparseCopies
  \/ CallOpaqueRanges

SpecCalls == InitCalls /\ [][NextCalls]_vars

----------------------------------------------------------------------------
(* Properties of GetPipelinesInOrder *)

\* the table the running call of GetPipelinesInOrder reads
CalledTable == PipelineTable(s, compute)

RECURSIVE ChainEndsAtZero(_, _, _)
\* following base handles from p reaches 0 within n steps, inside table t
ChainEndsAtZero(t, p, n) ==
  IF p = 0 THEN TRUE
  ELSE IF n = 0 \/ p \notin DOMAIN t THEN FALSE
  ELSE ChainEndsAtZero(t, t[p].BasePipeline, n - 1)

\* no cycle and no base outside the table
AllChainsEndAtZero(t) ==
  \A p \in DOMAIN t : ChainEndsAtZero(t, p, Cardinality(DOMAIN t))

\* C3: when every base-pipeline chain of the table ends at base handle zero, every
\* pipeline of the result stands after its base pipeline, whatever the order in
\* which the unresolved map was visited; the returned order holds them all.
C3_BaseBeforeDerived ==
  (rpc \in {"loop", "range", "done"} /\ AllChainsEndAtZero(CalledTable)) =>
     /\ \A i \in 1..Len(pipelines) :
          LET base == CalledTable[pipelines[i]].BasePipeline
          IN base # 0 => \E j \in 1..(i - 1) : pipelines[j] = base
     /\ rpc = "done" => Range(pipelines) = DOMAIN CalledTable

\* C3 witness: the chain 3(base=0), 2(base=3), 1(base=2) returned as 3, 2, 1
C3_Witness ==
  /\ rpc = "done"
  /\ DOMAIN CalledTable = {1, 2, 3}
  /\ CalledTable[3].BasePipeline = 0
  /\ CalledTable[2].BasePipeline = 3
  /\ CalledTable[1].BasePipeline = 2
  /\ pipelines = <<3, 2, 1>>

\* C4: GetPipelinesInOrder terminates on every table, also when an earlier pass
\* resolved some pipelines and the rest form a cycle or have a base outside the
\* table.
C4_Terminates == <>(rpc = "done")

\* C5: GetPipelinesInOrder returns a permutation of the pipelines of the requested
\* kind: no handle twice, no foreign handle, and on return every handle.
C5_Permutation ==
  rpc \in {"loop", "range", "done"} =>
     /\ NoDup(pipelines)
     /\ Range(pipelines) \subseteq DOMAIN CalledTable
     /\ Range(pipelines) \cap DOMAIN unhandledPipelines = {}
     /\ rpc = "done" => Range(pipelines) = DOMAIN CalledTable

\* C5 witness: the cycle 1(base=2), 2(base=1) returned with both handles
C5_Witness ==
  /\ rpc = "done"
  /\ DOMAIN CalledTable = {1, 2}
  /\ CalledTable[1].BasePipeline = 2
  /\ CalledTable[2].BasePipeline = 1
  /\ Len(pipelines) = 2

----------------------------------------------------------------------------
(* Properties of IsFullyBound *)

\* every byte of [offset, offset+size) lies inside some binding
Covered(offset, size, bindings) ==
  \A a \in offset..(offset + size - 1) :
     \E k \in DOMAIN bindings : k <= a /\ a < k + bindings[k].Size

\* some binding starts beyond the queried end
StartsBeyond(offset, size, bindings) ==
  \E k \in DOMAIN bindings : k > offset + size

\* two neighbouring bindings before the one beyond the queried end, the upper one
\* starting inside the queried range, with the lower one not reaching the upper one
HasGap(offset, size, bindings) ==
  LET keys == Keys(bindings)
      after == OneAfterReqRange(keys, offset, size)
  IN /\ size > 0
     /\ \E j \in 1..(after - 1) :
          /\ keys[j + 1] > offset
          /\ keys[j] + bindings[keys[j]].Size < keys[j + 1]

\* C7: IsFullyBound returns true whenever the bindings cover [offset, offset+size)
\* without a gap (bindings [0,10) and [10,20) and the query (0,20)).
C7_CoveredIsBound ==
  (bnd.called /\ bnd.size > 0 /\ Covered(bnd.offset, bnd.size, bnd.bindings)) => bnd.result

----------------------------------------------------------------------------
(* Properties of RebuildState *)

\* line 175: RebuildState has returned sb.cmds and sb.memoryIntervals
Returned == stage = Len(Stages) + 1

\* the command emitted last
LastCmd == sb.cmds[Len(sb.cmds)]

\* the allocations a command carries as observations
Obs(c) == Range(c.reads) \cup Range(c.writes)

\* c is a creation command of a snapshot object of its category (a memory
\* counts when it is not dedicated; the images of a swapchain are fetched,
\* not created)
SnapshotCreation(c) ==
  /\ c.kind = "create"
  /\ c.name # "vkGetSwapchainImagesKHR"
  /\ \E h \in c.objs :
       /\ h \in DOMAIN s[c.cat]
       /\ c.cat = "DeviceMemories" => ~s.DeviceMemories[h].DedicatedAllocationNV

\* c allocates, begins, records into or ends a snapshot command buffer of
\* the given level
OfCommandBuffer(c, level) ==
  \E h \in DOMAIN s.CommandBuffers :
    /\ s.CommandBuffers[h].Level = level
    /\ \/ c.cat = "CommandBuffers" /\ h \in c.objs
       \/ <<"CommandBuffers", h>> \in c.deps

\* C1: the creation commands of snapshot objects are emitted in the order of
\* the stages: a creation command of an object of an earlier category comes
\* before every creation command of an object of a later category, and the
\* commands of every secondary command buffer come before the allocation of
\* any primary one. Every emitted sequence is sb.cmds in some state, so the
\* command emitted last is compared with those before it.
C1_CategoryOrder ==
  \A i \in 1..(Len(sb.cmds) - 1) :
    /\ (SnapshotCreation(sb.cmds[i]) /\ SnapshotCreation(LastCmd))
         => StageOf(sb.cmds[i].cat) <= StageOf(LastCmd.cat)
    /\ ~(/\ sb.cmds[i].kind = "create" /\ OfCommandBuffer(sb.cmds[i], "PRIMARY")
         /\ OfCommandBuffer(LastCmd, "SECONDARY"))

Pipelines == {"ComputePipelines", "GraphicsPipelines"}

\* C2: when a creation command other than a pipeline creation is emitted,
\* every handle it names as a dependency is live in the new state.
C2_DependenciesLive ==
  (cur.kind = "create" /\ cur.cat \notin Pipelines)
     => \A d \in cur.deps : d[2] \in sb.newState[d[1]]

RECURSIVE BaseChain(_, _, _)
\* the pipeline reached from p by following the base handle n times (0 when
\* the chain leaves the table)
BaseChain(t, p, n) ==
  IF n = 0 THEN p
  ELSE IF p \notin DOMAIN t THEN 0
  ELSE BaseChain(t, t[p].BasePipeline, n - 1)

\* p is on a cycle of base pipelines of the table t
CycleMember(t, p) ==
  p \in DOMAIN t /\ \E n \in 1..Cardinality(DOMAIN t) : BaseChain(t, p, n) = p

\* C6: the creation command of a pipeline that is a member of a base-pipeline
\* cycle is emitted with base pipeline handle zero.
C6_CycleMembersNoBase ==
  (cur.kind = "create" /\ cur.cat \in Pipelines)
     => \A p \in cur.objs : CycleMember(s[cur.cat], p) => cur.base = 0

\* the pending allocations were all made since the last command was emitted
PendingSinceLastCmd(b) ==
  \A r \in b.allocs :
    r.id \in Range(b.readMemories) \cup Range(b.writeMemories) => r.born = Len(b.cmds)

\* C9 as stated: a step of write leaves both pending lists empty, and the
\* command it appends carries as observations exactly the allocations
\* registered in the pending lists since the command before it.
C9_ExactlyPending ==
  [][(cur # NoCmd /\ cur' = NoCmd) =>
       /\ sb'.readMemories = <<>> /\ sb'.writeMemories = <<>>
       /\ sb'.cmds[Len(sb'.cmds)].reads = sb.readMemories
       /\ sb'.cmds[Len(sb'.cmds)].writes = sb.writeMemories
       /\ PendingSinceLastCmd(sb)]_vars

\* the payload and the mapped pointer of the scratch buffer being filled
ScratchData ==
  IF stack # <<>> /\ Top.fn = "allocAndFillScratchBuffer"
                  /\ Top.pc \in {"flush", "unmap", "free"}
  THEN {L.dat, L.atdata} ELSE {}

\* C9: a step of write leaves both pending lists empty, and the command it
\* appends carries the observations attached to it before write was called
\* followed by exactly the allocations registered in the pending lists since
\* the command before it; observations are attached before write only to
\* vkMapMemory and vkFlushMappedMemoryRanges of a scratch buffer, and they
\* are its mapped pointer and its payload.
C9_PendingAttached ==
  [][(cur # NoCmd /\ cur' = NoCmd) =>
       /\ sb'.readMemories = <<>> /\ sb'.writeMemories = <<>>
       /\ Len(sb'.cmds) = Len(sb.cmds) + 1
       /\ sb'.cmds[Len(sb'.cmds)].reads = cur.reads \o sb.readMemories
       /\ sb'.cmds[Len(sb'.cmds)].writes = cur.writes \o sb.writeMemories
       /\ PendingSinceLastCmd(sb)
       /\ Obs(cur) # {} =>
            /\ cur.name \in {"vkMapMemory", "vkFlushMappedMemoryRanges"}
            /\ Obs(cur) \subseteq ScratchData]_vars

\* vkFlushMappedMemoryRanges of a scratch buffer is written: it carries the
\* payload, allocated before vkMapMemory, and the pending range structure
C9_Witness ==
  /\ cur = NoCmd
  /\ sb.cmds # <<>>
  /\ LastCmd.name = "vkFlushMappedMemoryRanges"
  /\ Len(LastCmd.reads) = 2
  /\ LastCmd.reads[1] \in ScratchData
  /\ sb.readMemories = <<>> /\ sb.writeMemories = <<>>

\* an emitted command carries the allocation id
Referenced(id) == \E i \in 1..Len(sb.cmds) : id \in Obs(sb.cmds[i])

\* no allocation is freed twice, and all are freed when RebuildState returns
FreedOnce ==
  /\ sb.doubleFrees = 0
  /\ Returned => sb.allocs = {} /\ sb.freed = sb.nextId - 1

C11_AppendedWhateverMutate ==
  [][/\ Len(sb'.cmds) >= Len(sb.cmds)
     /\ SubSeq(sb'.cmds, 1, Len(sb.cmds)) = sb.cmds
     /\ (cur # NoCmd /\ cur' = NoCmd) =>
          /\ Len(sb'.cmds) = Len(sb.cmds) + 1
          /\ sb'.cmds[Len(sb'.cmds)].name = cur.name
          /\ sb'.cmds[Len(sb'.cmds)].objs = cur.objs
     /\ (cur = NoCmd \/ cur' # NoCmd) => sb'.cmds = sb.cmds]_vars

\* a command whose mutation failed was appended and RebuildState went on to
\* append a command whose mutation applied, and returned
C11_Witness ==
  /\ Returned
  /\ \E i, j \in 1..Len(sb.cmds) :
       i < j /\ ~sb.cmds[i].mutated /\ sb.cmds[j].mutated

\* a Go run-time panic has unwound RebuildState: it returns nothing
Aborted == stack # <<>> /\ Top.fn = "panic"

\* C12: only the panic of an exhausted allocator aborts RebuildState: on
\* every snapshot no routine panics otherwise, whatever object is malformed
\* or has no usable queue.
C12_NeverAborted == Aborted => Top.pc = "exhausted"

OneShotPools(b) == b.newState.CommandPools \ DOMAIN s.CommandPools
OneShotBuffers(b) == b.newState.CommandBuffers \ DOMAIN s.CommandBuffers

\* the routines that call getCommandBuffer
Openers == {"createBuffer", "transitionImage", "createQueryPool"}

\* one of them is running
InOpener == \E i \in 1..Len(stack) : stack[i].fn \in Openers

\* the emitted commands of the given name on a one-shot command pool
OneShotCmds(name) ==
  {i \in 1..Len(sb.cmds) :
     /\ sb.cmds[i].name = name
     /\ sb.cmds[i].cat = "CommandPools"
     /\ sb.cmds[i].objs \cap DOMAIN s.CommandPools = {}}

\* the new state without its one-shot objects
WithoutOneShot(b) ==
  [b.newState EXCEPT !.CommandPools = @ \cap DOMAIN s.CommandPools,
                     !.CommandBuffers = @ \cap DOMAIN s.CommandBuffers,
                     !.PoolOf = {q \in @ : q[2] \in DOMAIN s.CommandPools}]

\* at most one one-shot cycle is open, it is open only while a routine that
\* opened it runs, and every cycle opened but the open one was closed once
OneShotDiscipline ==
  /\ Cardinality(OneShotPools(sb)) <= 1
  /\ Cardinality(OneShotBuffers(sb)) <= Cardinality(OneShotPools(sb))
  /\ (OneShotPools(sb) # {} /\ ~Aborted) => InOpener
  /\ Cardinality(OneShotCmds("vkCreateCommandPool"))
       = Cardinality(OneShotCmds("vkDestroyCommandPool")) + Cardinality(OneShotPools(sb))

\* C14: a one-shot command buffer is open only while createBuffer,
\* transitionImage or createQueryPool runs, at most one at a time, and each
\* is closed exactly once; while a cycle is open, and in the steps that open
\* and close it, the new state changes only in its one-shot pool and buffer,
\* so that after the cycle they are gone and the live objects of every
\* category are those before it.
C14_OneShotBalanced ==
  [][/\ OneShotDiscipline'
     /\ (OneShotPools(sb) # {} \/ OneShotPools(sb') # {})
          => WithoutOneShot(sb') = WithoutOneShot(sb)]_vars

\* createQueryPool has closed its one-shot cycle: vkDestroyCommandPool is the
\* last command, and no one-shot object is left in the new state
C14_Witness ==
  /\ cur = NoCmd
  /\ stack # <<>> /\ Top.fn \in Openers
  /\ sb.cmds # <<>> /\ Len(sb.cmds) \in OneShotCmds("vkDestroyCommandPool")
  /\ OneShotCmds("vkCreateCommandPool") # {}
  /\ OneShotPools(sb) = {} /\ OneShotBuffers(sb) = {}

\* the command is recorded into, begins, ends or submits a one-shot command
\* buffer
OnOneShot(c) ==
  \E d \in c.deps : d[1] = "CommandBuffers" /\ d[2] \notin DOMAIN s.CommandBuffers

\* the command creates, or destroys, a one-shot command pool
OneShotPool(c, kind) ==
  c.cat = "CommandPools" /\ c.kind = kind /\ c.objs \cap DOMAIN s.CommandPools = {}

\* the position of a command in a one-shot cycle ("none" outside)
CyclePosition(c) ==
  IF OneShotPool(c, "create") THEN "pool"
  ELSE IF OneShotPool(c, "destroy") THEN "destroy"
  ELSE IF c.name = "vkQueueWaitIdle" THEN "wait"
  ELSE IF ~OnOneShot(c) /\ c.name # "vkAllocateCommandBuffers" THEN "none"
  ELSE IF c.name = "vkAllocateCommandBuffers"
       THEN IF c.objs \cap DOMAIN s.CommandBuffers = {} THEN "allocate" ELSE "none"
  ELSE IF c.name = "vkBeginCommandBuffer" THEN "begin"
  ELSE IF c.name = "vkEndCommandBuffer" THEN "end"
  ELSE IF c.name = "vkQueueSubmit" THEN "submit"
  ELSE "work"

\* the positions that may follow a position
CycleNext(pos) ==
  CASE pos = "none" -> {"none", "pool"}
    [] pos = "pool" -> {"allocate"}
    [] pos = "allocate" -> {"begin"}
    [] pos = "begin" -> {"work", "end"}
    [] pos = "work" -> {"work", "end"}
    [] pos = "end" -> {"submit"}
    [] pos = "submit" -> {"wait"}
    [] pos = "wait" -> {"destroy"}
    [] pos = "destroy" -> {"none", "pool"}

\* the creation of the pool of the one-shot cycle the last command is in
CyclePool == sb.cmds[Max(OneShotCmds("vkCreateCommandPool"))]

\* C15: the commands of a one-shot cycle are emitted in the order
\* vkCreateCommandPool, vkAllocateCommandBuffers (one buffer, from that
\* pool), vkBeginCommandBuffer, commands recorded into that buffer,
\* vkEndCommandBuffer, vkQueueSubmit, vkQueueWaitIdle, vkDestroyCommandPool
\* with nothing in between, and the queue submitted to and waited on is a
\* queue of the device and the family the pool was created for. Every
\* emitted sequence is sb.cmds in some state, so the command emitted last is
\* compared with the one before it.
C15_CycleOrder ==
  LET n == Len(sb.cmds)
      pos == CyclePosition(LastCmd)
      before == IF n = 1 THEN "none" ELSE CyclePosition(sb.cmds[n - 1])
  IN n > 0 =>
       /\ pos \in CycleNext(before)
       /\ pos \notin {"none", "pool"} =>
            LET pool == CyclePool
                buffers == {d[2] : d \in {e \in LastCmd.deps : e[1] = "CommandBuffers"}}
                queues == {d[2] : d \in {e \in LastCmd.deps : e[1] = "Queues"}}
            IN /\ pos = "allocate" =>
                    /\ Cardinality(LastCmd.objs) = 1
                    /\ LastCmd.deps = Dep("CommandPools", CHOOSE h \in pool.objs : TRUE)
               /\ pos \in {"begin", "work", "end", "submit"} =>
                    buffers = OneShotBuffers(sb)
               /\ pos \in {"submit", "wait"} =>
                    /\ Cardinality(queues) = 1
                    /\ \A q \in queues :
                         /\ q \in DOMAIN s.Queues
                         /\ s.Queues[q].Device = pool.device
                         /\ s.Queues[q].Family = pool.family
               /\ pos = "wait" => queues \subseteq {d[2] : d \in sb.cmds[n - 1].deps}
               /\ pos = "destroy" =>
                    /\ LastCmd.objs = pool.objs
                    /\ LastCmd.device = pool.device

\* transitionImage has closed a cycle: it was opened on the last bound queue
\* of the image, and the submission two commands back was to that queue
C15_Witness ==
  /\ cur = NoCmd
  /\ stack # <<>> /\ Top.fn = "transitionImage"
  /\ sb.cmds # <<>> /\ OneShotPool(LastCmd, "destroy")
  /\ CyclePool.family = L.image.LastBoundQueue.Family
  /\ Dep("Queues", L.image.LastBoundQueue.VulkanHandle)
       \subseteq sb.cmds[Len(sb.cmds) - 2].deps
  /\ Cardinality(DOMAIN s.Queues) = 2

----------------------------------------------------------------------------
(* Properties of the sizes and of the priming strategy *)

\* the sizes of a call of allocAndFillScratchBuffer on data of length N: the
\* buffer has size N, the memory a multiple of 256 that is at least 2*N and
\* less than 2*N + 256
ScratchSizesOf(N, r) ==
  /\ r.size = N
  /\ r.allocSize % 256 = 0
  /\ r.allocSize >= 2 * N
  /\ r.allocSize < 2 * N + 256

ScratchCalled == fcall.fn = "allocAndFillScratchBuffer" /\ fcall.called

\* C16, as stated: allocAndFillScratchBuffer creates a buffer of exactly the
\* length N of the data, and allocates a memory whose size is a multiple of
\* 256, at least 2*N and less than 2*N + 256, which is 512 for N = 100
C16_ScratchSizes512 ==
  ScratchCalled =>
    /\ ScratchSizesOf(fcall.args.len, fcall.result)
    /\ (fcall.args.len = 100 => fcall.result.allocSize = 512)

\* C16, amended: allocAndFillScratchBuffer creates a buffer of exactly the
\* length N of the data, and allocates a memory whose size is a multiple of
\* 256, at least 2*N and less than 2*N + 256, which is 256 for N = 100 (and
\* 512 for N from 129 to 256)
C16_ScratchSizes ==
  ScratchCalled =>
    /\ ScratchSizesOf(fcall.args.len, fcall.result)
    /\ (fcall.args.len = 100 => fcall.result.allocSize = 256)
    /\ (fcall.args.len \in 129..256 => fcall.result.allocSize = 512)

C16_Witness ==
  /\ ScratchCalled
  /\ fcall.args.len = 100
  /\ fcall.result = [size |-> 100, allocSize |-> 256]

\* a is the least multiple of 8 that is not below v
LeastMultipleOf8(a, v) == a % 8 = 0 /\ a >= v /\ a - v < 8

\* C17: the level size of levelSize is widthInBlocks * heightInBlocks * depth
\* * elementSize, the element size being 1 for the stencil aspect; the
\* aligned size is the least multiple of 8 not below it (400 stays 400, 402
\* becomes 408); the sizes in a buffer are those in the image but for the
\* depth aspect
C17_LevelSize ==
  (fcall.fn = "levelSize" /\ fcall.called) =>
    LET a == fcall.args
        r == fcall.result
        blocks == a.widthInBlocks * a.heightInBlocks * a.depth
    IN /\ a.aspect = "COLOR" => r.levelSize = blocks * a.format.ElementSize
       /\ a.aspect = "DEPTH" => /\ r.levelSize = blocks * a.format.DepthSize
                                /\ r.levelSizeInBuf = blocks * a.format.DepthSizeInBuf
       /\ a.aspect = "STENCIL" => r.levelSize = blocks
       /\ LeastMultipleOf8(r.alignedLevelSize, r.levelSize)
       /\ LeastMultipleOf8(r.alignedLevelSizeInBuf, r.levelSizeInBuf)
       /\ (r.levelSize = 400 => r.alignedLevelSize = 400)
       /\ (r.levelSize = 402 => r.alignedLevelSize = 408)
       /\ a.aspect # "DEPTH" => /\ r.levelSizeInBuf = r.levelSize
                                /\ r.alignedLevelSizeInBuf = r.alignedLevelSize

C17_Witness ==
  /\ fcall.fn = "levelSize"
  /\ fcall.called
  /\ fcall.args.aspect = "COLOR"
  /\ fcall.result.levelSize = 402
  /\ fcall.result.alignedLevelSize = 408

\* C18: createImage calls at most one method of the primer, chosen from the
\* usage of the image: the buffer copy if the usage has the transfer
\* destination bit; else the rendering if it has the colour or the
\* depth-stencil attachment bit; else the image store if it has the storage
\* bit; else none. No two of the three flags hold together
C18_StrategyPriority ==
  (fcall.fn = "createImage" /\ fcall.called) =>
    LET usage == fcall.args.Usage
        flags == fcall.result.flags
        calls == fcall.result.calls
        dst == "TRANSFER_DST" \in usage
        att == "COLOR_ATTACHMENT" \in usage \/ "DEPTH_STENCIL_ATTACHMENT" \in usage
        storage == "STORAGE" \in usage
    IN /\ Cardinality(calls) <= 1
       /\ dst => calls = {"primeByBufferCopy"}
       /\ (~dst /\ att) => calls = {"primeByRendering"}
       /\ (~dst /\ ~att /\ storage) => calls = {"primeByImageStore"}
       /\ (~dst /\ ~att /\ ~storage) => calls = {}
       /\ ~(flags.primeByBufCopy /\ flags.primeByRendering)
       /\ ~(flags.primeByBufCopy /\ flags.primeByImageStore)
       /\ ~(flags.primeByRendering /\ flags.primeByImageStore)

C18_Witness ==
  /\ fcall.fn = "createImage"
  /\ fcall.called
  /\ {"COLOR_ATTACHMENT", "STORAGE"} \subseteq fcall.args.Usage
  /\ "TRANSFER_DST" \notin fcall.args.Usage
  /\ fcall.result.calls = {"primeByRendering"}

----------------------------------------------------------------------------
(* Properties of createImage *)

\* the commands createImage emits for the image h after the binding of its
\* memory: those between vkBindImageMemory and the first sampler
ImageTail(h) ==
  LET n == Len(sb.cmds)
      binds == {i \in 1..n : /\ sb.cmds[i].name = "vkBindImageMemory"
                             /\ <<"Images", h>> \in sb.cmds[i].deps}
      samplers == {j \in 1..n : sb.cmds[j].cat = "Samplers"}
  IN IF binds = {} THEN <<>>
     ELSE SubSeq(sb.cmds, Max(binds) + 1, IF samplers = {} THEN n ELSE Min(samplers) - 1)

\* the stage of the images is over
ImagesDone == \E j \in 1..Len(sb.cmds) : sb.cmds[j].cat = "Samplers"

\* the names the commands of the primer stand under
PrimeNames == {"primeByBufferCopy", "primeByRendering", "primeByImageStore"}

Primed(tail) == \E i \in 1..Len(tail) : tail[i].name \in PrimeNames

\* tail is one one-shot cycle whose only recorded command is one barrier on
\* the image h
OneTransition(tail, h) ==
  /\ [i \in 1..Len(tail) |-> CyclePosition(tail[i])]
       = <<"pool", "allocate", "begin", "work", "end", "submit", "wait", "destroy">>
  /\ tail[4].name = "vkCmdPipelineBarrier"
  /\ <<"Images", h>> \in tail[4].deps

\* a snapshot image with bound memory that is multi-sampled or has the
\* undefined layout
Unprimable(h) ==
  /\ h \in DOMAIN s.Images
  /\ ~s.Images[h].IsSwapchainImage
  /\ s.Images[h].BoundMemory.VulkanHandle # 0
  /\ s.Images[h].Info.Samples # 1 \/ s.Images[h].Info.Layout = "UNDEFINED"

\* C19, as stated: for an image with bound memory that is multi-sampled or
\* whose layout is undefined, createImage emits no priming command, and
\* after the creation and the binding it emits one layout transition: one
\* one-shot cycle with a single barrier on the image
C19_TransitionOnly ==
  \A h \in {1, 2} :
    Unprimable(h) =>
      /\ ~Primed(ImageTail(h))
      /\ ImagesDone => OneTransition(ImageTail(h), h)

\* C19, amended: for an image with bound memory that is multi-sampled or
\* whose layout is undefined, createImage emits no priming command; after
\* the creation and the binding it emits nothing when the layout is
\* undefined or the image was never bound to a queue, and else (a
\* multi-sampled image with a last bound queue) one layout transition: one
\* one-shot cycle with a single barrier on the image
C19_TransitionIfQueued ==
  \A h \in {1, 2} :
    Unprimable(h) =>
      /\ ~Primed(ImageTail(h))
      /\ ImagesDone =>
           IF \/ s.Images[h].Info.Layout = "UNDEFINED"
              \/ s.Images[h].LastBoundQueue.VulkanHandle = 0
           THEN ImageTail(h) = <<>>
           ELSE OneTransition(ImageTail(h), h)

\* the multi-sampled image was created and bound, one transition followed,
\* and the samplers have begun
C19_Witness ==
  /\ Unprimable(1)
  /\ s.Images[1].Info.Samples # 1
  /\ ImagesDone
  /\ Len(ImageTail(1)) = 8
  /\ OneTransition(ImageTail(1), 1)

----------------------------------------------------------------------------
(* Properties of the pipeline creations *)

\* the categories a pipeline creation recreates as temporaries
Temporaries == {"ShaderModules", "PipelineLayouts", "RenderPasses"}

\* the live objects of the category that are not objects of the snapshot
TemporaryLive(cat) == sb.newState[cat] \ DOMAIN s[cat]

\* C20: when the creation command of a compute or a graphics pipeline is
\* emitted, every shader module, pipeline layout and render pass it names is
\* live in the new state, one that was not live having been created as a
\* temporary before it; and once the routine has returned the temporaries
\* are destroyed.
C20_TemporariesLive ==
  /\ (cur.kind = "create" /\ cur.cat \in Pipelines)
       => \A d \in cur.deps : d[1] \in Temporaries => d[2] \in sb.newState[d[1]]
  /\ (stack = <<>> /\ cur = NoCmd) => \A cat \in Temporaries : TemporaryLive(cat) = {}

\* the i-th command creates a temporary: an object of one of the three
\* categories that the snapshot does not hold, or that a command before it
\* has created already
TemporaryCreate(i) ==
  LET c == sb.cmds[i]
  IN /\ c.kind = "create"
     /\ c.cat \in Temporaries
     /\ \/ c.objs \cap DOMAIN s[c.cat] = {}
        \/ \E j \in 1..(i - 1) : /\ sb.cmds[j].kind = "create"
                                  /\ sb.cmds[j].cat = c.cat
                                  /\ sb.cmds[j].objs = c.objs

\* the k-th command destroys what the i-th created, and a pipeline or a
\* framebuffer that names it is created in between
DestroyedAfterUse(i, k) ==
  /\ sb.cmds[k].kind = "destroy"
  /\ sb.cmds[k].cat = sb.cmds[i].cat
  /\ sb.cmds[k].objs = sb.cmds[i].objs
  /\ \E u \in (i + 1)..(k - 1) :
       /\ sb.cmds[u].kind = "create"
       /\ sb.cmds[u].cat \in Pipelines \cup {"Framebuffers"}
       /\ \E h \in sb.cmds[i].objs : <<sb.cmds[i].cat, h>> \in sb.cmds[u].deps

\* C21: once the routine that created it has returned, every creation of a
\* temporary shader module, pipeline layout or render pass is followed by
\* the destruction of the same handle, after the creation of the pipeline
\* or framebuffer that used it, whether or not the commands mutated the new
\* state.
C21_TemporariesDestroyed ==
  (stack = <<>> /\ cur = NoCmd) =>
    \A i \in 1..Len(sb.cmds) :
      TemporaryCreate(i) => \E k \in (i + 1)..Len(sb.cmds) : DestroyedAfterUse(i, k)

----------------------------------------------------------------------------
(* Properties of the device memories *)

\* the commands that allocate the memory h
AllocationsOf(h) ==
  {i \in 1..Len(sb.cmds) : sb.cmds[i].name = "vkAllocateMemory" /\ h \in sb.cmds[i].objs}

\* C22: every device memory of the snapshot is the target of at most one
\* vkAllocateMemory of the emitted sequence, whether it is allocated in the
\* pass of the non-dedicated memories or with the buffer or the image it is
\* dedicated to, also when only one of the resource and the memory says that
\* the allocation is dedicated.
C22_AllocatedOnce ==
  \A h \in DOMAIN s.DeviceMemories : Cardinality(AllocationsOf(h)) <= 1

----------------------------------------------------------------------------
(* Properties of the priming of sparse resources *)

\* the bytes of [offset, offset + size) that no binding holds
Unbound(offset, size, bindings) ==
  {a \in offset..(offset + size - 1) :
     ~\E k \in DOMAIN bindings : k <= a /\ a < k + bindings[k].Size}

\* the bytes of the opaque bindings a range of a sparse image stands for:
\* the whole image, or the mip tail of a requirement for the layers of the
\* range
RangeBytes(a, r) ==
  IF ~a.sparseResidency THEN {[offset |-> 0, size |-> a.size]}
  ELSE LET matching ==
             {q \in Range(a.reqs) :
                /\ q.ImageMipTailFirstLod = r.baseMipLevel
                /\ IF q.SingleMipTail
                   THEN r.baseArrayLayer = 0 /\ r.layerCount = a.layers
                   ELSE r.layerCount = 1}
       IN {[offset |-> q.ImageMipTailOffset
                         + (IF q.SingleMipTail THEN 0
                            ELSE r.baseArrayLayer * q.ImageMipTailStride),
            size |-> q.ImageMipTailSize] : q \in matching}

\* C23: a resource with sparse bindings is primed only where it is bound.
\* For a buffer without sparse residency copy regions are built only if
\* the bindings cover [0, size); for a sparse-resident buffer there is one
\* region per binding, with the destination [ResourceOffset,
\* ResourceOffset + Size); no destination of a region holds an unbound byte.
\* For an image a range is handed to the primer only if the bytes it
\* stands for are covered by the opaque bindings.
C23_PrimedWhereBound ==
  /\ (fcall.fn = "createBuffer" /\ fcall.called) =>
       LET a == fcall.args
           copies == fcall.result.copies
       IN /\ (~a.sparseResidency /\ copies # <<>>) => Covered(0, a.size, a.bindings)
          /\ a.sparseResidency =>
               /\ Len(copies) = Cardinality(DOMAIN a.bindings)
               /\ \A k \in DOMAIN a.bindings :
                    \E i \in 1..Len(copies) :
                      copies[i].dstOffset = k /\ copies[i].size = a.bindings[k].Size
          /\ \A i \in 1..Len(copies) :
               Unbound(copies[i].dstOffset, copies[i].size, a.bindings) = {}
  /\ (fcall.fn = "opaqueRanges" /\ fcall.called) =>
       LET a == fcall.args
           ranges == fcall.result.ranges
       IN \A i \in 1..Len(ranges) :
            \E bytes \in RangeBytes(a, ranges[i]) :
              Covered(bytes.offset, bytes.size, a.bindings)

\* a sparse-resident buffer whose bindings leave a hole inside the buffer is
\* primed with one region per binding
C23_Witness ==
  /\ fcall.fn = "createBuffer"
  /\ fcall.called
  /\ fcall.args.sparseResidency
  /\ Unbound(0, fcall.args.size, fcall.args.bindings) # {}
  /\ Len(fcall.result.copies) = 2

----------------------------------------------------------------------------
(* Properties of the interval set *)

\* the addresses of the allocation with the given id
Addresses(id) == sb.ranges[id].base..(sb.ranges[id].base + sb.ranges[id].size - 1)

\* the addresses the observations of the emitted commands cover
Observed == UNION {Addresses(id) : id \in UNION {Obs(sb.cmds[i]) : i \in 1..Len(sb.cmds)}}

\* C24: when RebuildState returns, every range attached to an emitted
\* command as a read or a write observation lies in the interval set
\* returned, those of the payload and of the mapped pointer of a scratch
\* buffer and of the arrays of immutable samplers included.
C24_ObservedInIntervals ==
  Returned => Observed \subseteq SpanAddresses(sb.memoryIntervals)

\* the spans of the list are sorted, not empty, pairwise disjoint and not
\* adjacent
Coalesced(intervals) ==
  /\ \A i \in 1..Len(intervals) : intervals[i].Start < intervals[i].End
  /\ \A i \in 1..(Len(intervals) - 1) : intervals[i].End < intervals[i + 1].Start

\* C25: after any sequence of insertions of ranges [Base, Base+Size) the
\* interval set is coalesced (sorted, pairwise disjoint, non-adjacent
\* spans), it covers exactly the union of the ranges inserted, and it covers
\* what it covered before the last insertion.
C25_Coalesced ==
  fcall.fn = "Merge" =>
    LET r == fcall.result
        inserted == UNION {fcall.args.ranges[i].base
                             ..(fcall.args.ranges[i].base + fcall.args.ranges[i].size - 1) :
                           i \in 1..r.done}
    IN /\ Coalesced(r.list)
       /\ SpanAddresses(r.list) = inserted
       /\ SpanAddresses(r.before) \subseteq SpanAddresses(r.list)

\* the third range joins the two spans the first two left apart
C25_Witness ==
  /\ fcall.fn = "Merge"
  /\ fcall.result.done = 3
  /\ Len(fcall.result.before) = 2
  /\ Len(fcall.result.list) = 1

\* C26: the copy regions createBuffer builds for a buffer with sparse
\* bindings are the same whatever order the range over the bindings map
\* visits them in, so that two rebuilds of one snapshot give one command
\* sequence.
C26_OrderIndependent ==
  (fcall.fn = "createBuffer" /\ fcall.called) =>
    \A order \in Orders(DOMAIN fcall.args.bindings) :
      sparseCopies(fcall.args.sparseResidency, fcall.args.size,
                   fcall.args.bindings, order) = fcall.result.copies

\* C27: getQueueFor returns the last bound queue when there is one;
\* otherwise a queue of the given device whose family is among the listed
\* families when there is such a queue; otherwise a queue of that device;
\* and no queue only when the device has no queue at all, so that a resource
\* never bound to a queue is primed on a queue of its own device.
C27_QueueOfDevice ==
  (fcall.fn = "getQueueFor" /\ fcall.called) =>
    LET a == fcall.args
        queue == fcall.result.queue
        onDevice == {q \in Values(a.queues) : q.Device = a.device}
        listed == {q \in onDevice : q.Family \in a.queueFamilyIndices}
    IN IF a.lastBoundQueue # NilQueue THEN queue = a.lastBoundQueue
       ELSE IF a.hasQueueFamilyIndices /\ listed # {} THEN queue \in listed
       ELSE IF onDevice # {} THEN queue \in onDevice
       ELSE queue = NilQueue

\* no last bound queue, no queue of a listed family on the device, queues on
\* both devices: a queue of the device is returned
C27_Witness ==
  /\ fcall.fn = "getQueueFor"
  /\ fcall.called
  /\ fcall.args.lastBoundQueue = NilQueue
  /\ fcall.args.hasQueueFamilyIndices
  /\ fcall.args.queueFamilyIndices # {}
  /\ \E q \in Values(fcall.args.queues) : q.Device # fcall.args.device
  /\ fcall.result.queue # NilQueue
  /\ fcall.result.queue.Family \notin fcall.args.queueFamilyIndices

PrefixComparable(a, b) ==
  LET n == IF Len(a) < Len(b) THEN Len(a) ELSE Len(b)
  IN SubSeq(a, 1, n) = SubSeq(b, 1, n)

\* the call that is not running has returned
PeerReturned == peer # NoPeer /\ peer.stage = Len(Stages) + 1

C30_FatalAndAdvisory ==
  fcall.fn = "Mutate" =>
    LET a == fcall.args
        r == fcall.result
        wrapper == {i \in 1..Len(Wrappers) : Wrappers[i].sub = a.sub}
    IN /\ (r.aborted \/ r.continued) => Len(r.reports) = 1
       /\ r.pc = "done" =>
            /\ Len(r.reports) = 1
            /\ r.aborted # r.continued
            /\ wrapper # {} =>
                 /\ r.reports[1] = [extern |-> "vkErrInvalidHandle",
                                    name |-> Wrappers[CHOOSE i \in wrapper : TRUE].param,
                                    handle |-> a.handle]
                 /\ r.aborted
            /\ a.sub = "vkErrorInvalidHandle" =>
                 /\ r.reports[1] = [extern |-> "vkErrInvalidHandle", name |-> a.name,
                                    handle |-> a.handle]
                 /\ r.aborted
            /\ a.sub = "vkErrorNullPointer" =>
                 /\ r.reports[1].extern = "vkErrNullPointer"
                 /\ r.reports[1].name = a.name
                 /\ r.aborted
            /\ a.sub = "vkErrorUnrecognizedExtension" =>
                 /\ r.reports[1].extern = "vkErrUnrecognizedExtension"
                 /\ r.reports[1].name = a.name
                 /\ r.continued
            /\ a.sub = "vkErrorExpectNVDedicatedlyAllocatedHandle" =>
                 /\ r.reports[1] = [extern |-> "vkErrExpectNVDedicatedlyAllocatedHandle",
                                    name |-> a.name, handle |-> a.handle]
                 /\ r.continued

\* a per-type sub has reported its handle and aborted the mutate step
C30_Witness ==
  /\ fcall.fn = "Mutate"
  /\ fcall.args.sub = "vkErrorInvalidSwapchain"
  /\ fcall.args.handle = 2
  /\ fcall.result.pc = "done"
  /\ fcall.result.aborted
  /\ fcall.result.reports = <<[extern |-> "vkErrInvalidHandle", name |-> "VkSwapchainKHR",
                               handle |-> 2]>>

\* C31: InitialCommands returns (nil, nil, error) when the capture does not
\* resolve, and otherwise the pair the capture's rebuild produced; every
\* request for the capture returns the same, and the rebuild runs at most
\* once.
C31_BuiltOnce ==
  fcall.fn = "InitialCommands" =>
    LET r == fcall.result
    IN /\ Len(r.produced) <= 1
       /\ \A i \in 1..Len(r.returns) :
            /\ r.returns[i] = r.returns[1]
            /\ r.returns[i].err = ~fcall.args.resolves
            /\ IF r.returns[i].err
               THEN r.returns[i].cmds = "nil" /\ r.returns[i].ranges = "nil"
               ELSE /\ Len(r.produced) = 1
                    /\ r.returns[i].cmds = r.produced[1].cmds
                    /\ r.returns[i].ranges = r.produced[1].ranges

\* three requests for a capture that resolves, one rebuild
C31_Witness ==
  /\ fcall.fn = "InitialCommands"
  /\ Len(fcall.result.returns) = 3
  /\ Len(fcall.result.produced) = 1
  /\ ~fcall.result.returns[3].err

\* the handles of the elements of descriptor set ds that name only objects
\* live in the new state, and name all they need
WholeElements(ds) ==
  UNION {DescriptorDeps(ds.Bindings[i]) :
           i \in {j \in 1..Len(ds.Bindings) :
                    LET e == ds.Bindings[j]
                    IN CASE e.Kind = "image" ->
                              /\ e.Sampler \in sb.newState.Samplers
                              /\ e.ImageView \in sb.newState.ImageViews
                         [] e.Kind = "buffer" -> e.Buffer \in sb.newState.Buffers
                         [] OTHER -> e.BufferView \in sb.newState.BufferViews}}

\* C32: a descriptor set is allocated only from a pool live in the new
\* state; its vkAllocateDescriptorSets is followed at once by one
\* vkUpdateDescriptorSets, which names only samplers, image views, buffers
\* and buffer views live in the new state, and names those of every element
\* whose references are all live.
C32_DescriptorsLive ==
  \A i \in 1..Len(sb.cmds) :
    LET c == sb.cmds[i]
        set == {d[2] : d \in {e \in c.deps : e[1] = "DescriptorSets"}}
        named == {d \in c.deps : d[1] # "DescriptorSets"}
    IN /\ c.name = "vkAllocateDescriptorSets" =>
            /\ \A d \in c.deps : d[1] = "DescriptorPools" =>
                                     d[2] \in sb.newState.DescriptorPools
            /\ i < Len(sb.cmds) => sb.cmds[i + 1].name = "vkUpdateDescriptorSets"
            /\ Returned => i < Len(sb.cmds)
       /\ c.name = "vkUpdateDescriptorSets" =>
            /\ i > 1
            /\ sb.cmds[i - 1].name = "vkAllocateDescriptorSets"
            /\ \A d \in named : d[2] \in sb.newState[d[1]]
            /\ \A h \in set : WholeElements(s.DescriptorSets[h]) \subseteq named

\* the image view of the first element is not live: the set is updated with
\* its buffer and buffer view only
C32_Witness ==
  /\ Returned
  /\ 1 \notin sb.newState.ImageViews
  /\ \E i \in 1..Len(sb.cmds) :
       /\ sb.cmds[i].name = "vkUpdateDescriptorSets"
       /\ <<"Buffers", 1>> \in sb.cmds[i].deps
       /\ <<"BufferViews", 1>> \in sb.cmds[i].deps
       /\ <<"ImageViews", 1>> \notin sb.cmds[i].deps

\* the names of the commands emitted for command buffer h of the snapshot,
\* in order
RecordedNames(h) ==
  LET Concerns(c) == \/ <<"CommandBuffers", h>> \in c.deps
                     \/ c.kind = "create" /\ c.cat = "CommandBuffers" /\ h \in c.objs
      q == SelectSeq(sb.cmds, Concerns)
  IN [i \in 1..Len(q) |-> q[i].name]

\* the names of the first n sub-commands of cb in index order
SubCommandNames(cb, n) == [i \in 1..n |-> cb.CommandReferences[i].Name]

\* what the recording state of cb asks for, with its first n sub-commands
Recording(cb, n) ==
  CASE cb.Recording = "NOT_STARTED" -> <<"vkAllocateCommandBuffers">>
    [] cb.Recording = "RECORDING" ->
         <<"vkAllocateCommandBuffers", "vkBeginCommandBuffer">> \o SubCommandNames(cb, n)
    [] OTHER ->
         <<"vkAllocateCommandBuffers", "vkBeginCommandBuffer">> \o SubCommandNames(cb, n)
           \o <<"vkEndCommandBuffer">>

\* every command of a secondary command buffer comes before every command
\* of a primary one
SecondaryFirst ==
  \A i, j \in 1..Len(sb.cmds) :
    (/\ <<"CommandBuffers", 2>> \in sb.cmds[j].deps
     /\ <<"CommandBuffers", 1>> \in sb.cmds[i].deps
     /\ {1, 2} \subseteq DOMAIN s.CommandBuffers) => j < i

\* the recording state of every command buffer is reproduced, whether or not
\* its sub-commands can be rebuilt
C33_RecordingReproduced ==
  Returned =>
    /\ SecondaryFirst
    /\ \A h \in DOMAIN s.CommandBuffers :
         RecordedNames(h) = Recording(s.CommandBuffers[h],
                                      Len(s.CommandBuffers[h].CommandReferences))

\* C33: a command buffer whose sub-commands can all be rebuilt is given,
\* in the pass of its level and the secondary ones first, the commands of
\* its recording state: the allocation alone when not started; allocation,
\* begin and the sub-commands in index order when recording; the same and
\* one end when completed.
C33_RecordingOfRebuildable ==
  Returned =>
    /\ SecondaryFirst
    /\ \A h \in DOMAIN s.CommandBuffers :
         LET cb == s.CommandBuffers[h]
         IN (\A i \in 1..Len(cb.CommandReferences) : cb.CommandReferences[i].Valid) =>
              RecordedNames(h) = Recording(cb, Len(cb.CommandReferences))

\* a primary command buffer still recording: three sub-commands and no end
C33_Witness ==
  /\ Returned
  /\ s.CommandBuffers[1].Recording = "RECORDING"
  /\ RecordedNames(1) = <<"vkAllocateCommandBuffers", "vkBeginCommandBuffer",
                          "vkCmdBindPipeline", "vkCmdDispatch", "vkCmdDraw">>
  /\ RecordedNames(2)[Len(RecordedNames(2))] = "vkEndCommandBuffer"

\* C34: when a sub-command of a command buffer cannot be rebuilt, the
\* commands of the buffer stop with the sub-command before it: no later
\* sub-command and no end; and the rebuild goes on to return.
C34_RecordingStops ==
  \A h \in DOMAIN s.CommandBuffers :
    LET cb == s.CommandBuffers[h]
        bad == {i \in 1..Len(cb.CommandReferences) : ~cb.CommandReferences[i].Valid}
        first == CHOOSE i \in bad : \A j \in bad : i <= j
    IN (bad # {} /\ cb.Recording # "NOT_STARTED") =>
         /\ \E n \in 0..(first + 1) :
              RecordedNames(h) = SubSeq(<<"vkAllocateCommandBuffers",
                                         "vkBeginCommandBuffer">>
                                         \o SubCommandNames(cb, first - 1), 1, n)
         /\ Returned =>
              RecordedNames(h) = <<"vkAllocateCommandBuffers", "vkBeginCommandBuffer">>
                                   \o SubCommandNames(cb, first - 1)

\* the second sub-command of either buffer cannot be rebuilt: the first is
\* recorded and nothing follows for the secondary buffer, the rebuild goes
\* on with the primary buffer and returns
C34_Witness ==
  /\ Returned
  /\ ~s.CommandBuffers[2].CommandReferences[2].Valid
  /\ RecordedNames(2) = <<"vkAllocateCommandBuffers", "vkBeginCommandBuffer",
                          "vkCmdBindPipeline">>
  /\ RecordedNames(1) = RecordedNames(2)

\* C35: createSemaphore emits a queue submission signalling the semaphore
\* exactly when the semaphore of the snapshot is signaled, on the
\* semaphore's last queue when that queue is live and otherwise on a live
\* queue of the semaphore's device.
C35_SignalOnLiveQueue ==
  (fcall.fn = "createSemaphore" /\ fcall.called) =>
    LET sem == fcall.args.sem
        queues == fcall.args.queues
        submits == fcall.result.submits
    IN /\ Len(submits) = IF sem.Signaled THEN 1 ELSE 0
       /\ sem.Signaled =>
            IF sem.LastQueue \in DOMAIN queues THEN submits[1] = sem.LastQueue
            ELSE /\ submits[1] \in DOMAIN queues
                 /\ queues[submits[1]].Device = sem.Device

\* C36: vkCreateWin32SurfaceKHR registers under the handle it writes to
\* pSurface[0] a surface with the given instance and type WIN32; createSurface
\* on a WIN32 surface emits exactly that one command, whose mutation leaves a
\* surface of the same handle, instance and type in the new state and no
\* other surface changed; on a surface of a type it has no case for it emits
\* nothing and the new state keeps its surfaces.
C36_Win32Surface ==
  (fcall.fn = "createSurface" /\ fcall.called) =>
    LET surface == fcall.args.s
        before == fcall.args.Surfaces
        after == fcall.result.Surfaces
        cmds == fcall.result.cmds
    IN /\ surface.Type = "WIN32" =>
            /\ cmds = <<[name |-> "vkCreateWin32SurfaceKHR",
                         instance |-> surface.Instance,
                         pSurface |-> <<surface.VulkanHandle>>]>>
            /\ vkCreateWin32SurfaceKHR(before, surface.Instance,
                                       surface.VulkanHandle).pSurface[1]
                 = surface.VulkanHandle
            /\ DOMAIN after = DOMAIN before \cup {surface.VulkanHandle}
            /\ after[surface.VulkanHandle] = surface
            /\ \A h \in DOMAIN before \ {surface.VulkanHandle} : after[h] = before[h]
       /\ surface.Type \notin DOMAIN SurfaceCreate => cmds = <<>> /\ after = before

C36_Witness ==
  /\ fcall.fn = "createSurface"
  /\ fcall.called
  /\ fcall.args.s.Type = "WIN32"
  /\ fcall.args.s.VulkanHandle = 2
  /\ fcall.args.Surfaces # <<>>
  /\ fcall.result.Surfaces[2].Instance = 1

\* C37: IsFullyBound is sound: whenever it returns true, every byte of
\* [offset, offset+size) lies inside some binding
\* [ResourceOffset, ResourceOffset+Size), for every binding set, offset and
\* size of the bounded range.
C37_BoundIsCovered ==
  (bnd.called /\ bnd.result) => Covered(bnd.offset, bnd.size, bnd.bindings)

\* C37 witness: a true result on a range that no single binding covers
C37_Witness ==
  /\ bnd.called
  /\ bnd.result
  /\ bnd.size > 1
  /\ \A k \in DOMAIN bnd.bindings :
        ~Covered(bnd.offset, bnd.size, [j \in {k} |-> bnd.bindings[j]])

\* C38: each copy region createBuffer emits for a sparse binding has as
\* source offset the position of that binding's data in the scratch payload,
\* and source offset + size does not exceed the length of the payload,
\* whatever the sizes of the bindings.
C38_CopySourceIsData ==
  (fcall.fn = "createBuffer" /\ fcall.called) =>
    LET copies == fcall.result.copies
        contents == fcall.result.contents
    IN \A i \in 1..Len(copies) :
         /\ copies[i].srcOffset + copies[i].size <= Len(contents)
         /\ \A j \in 0..(copies[i].size - 1) :
              contents[copies[i].srcOffset + j + 1] = copies[i].dstOffset + j

\* C39: for a resource with sparse bindings whose device has a queue,
\* createBuffer and createImage emit vkQueueBindSparse on a queue that
\* exists, is a queue of the resource's device and is of a family that binds
\* sparse memory.
C39_SparseQueueCapable ==
  (fcall.fn = "bindSparse" /\ fcall.called) =>
    LET a == fcall.args
    IN (\E q \in Values(a.queues) : q.Device = a.device) =>
         /\ ~fcall.result.panicked
         /\ Len(fcall.result.binds) = 1
         /\ fcall.result.binds[1] \in Values(a.queues)
         /\ fcall.result.binds[1].Device = a.device
         /\ fcall.result.binds[1].Family \in a.sparse

----------------------------------------------------------------------------
(* Properties of the transient objects *)

\* every command emitted so far has mutated the new state
AllMutated == \A i \in 1..Len(sb.cmds) : sb.cmds[i].mutated

\* the i-th command creates an object that a later command destroys, alone
\* or with its pool
TransientCreate(i, h) ==
  LET c == sb.cmds[i]
  IN /\ c.kind = "create"
     /\ h \in c.objs
     /\ \E k \in (i + 1)..Len(sb.cmds) :
          /\ sb.cmds[k].kind = "destroy"
          /\ \/ sb.cmds[k].cat = c.cat /\ h \in sb.cmds[k].objs
             \/ /\ c.name = "vkAllocateCommandBuffers"
                /\ sb.cmds[k].cat = "CommandPools"
                /\ \E d \in c.deps : d[1] = "CommandPools" /\ d[2] \in sb.cmds[k].objs

\* the category of the objects a command creates
CreatedCategory(c) ==
  IF c.name = "vkAllocateCommandBuffers" THEN "CommandBuffers" ELSE c.cat

\* C40: when every mutation has succeeded, between two top-level create
\* routines and when RebuildState returns, every object live in the new
\* state is live in the same category of the snapshot (no one-shot command
\* pool or buffer, scratch buffer or memory, temporary shader module,
\* pipeline layout or render pass remains), and every handle of an object
\* created and destroyed again is the handle of no snapshot object of its
\* category.
C40_NoTransientLeft ==
  (stack = <<>> /\ cur = NoCmd /\ AllMutated) =>
    /\ \A cat \in Categories : sb.newState[cat] \subseteq DOMAIN s[cat]
    /\ \A i \in 1..Len(sb.cmds) : \A h \in sb.cmds[i].objs :
         TransientCreate(i, h) => h \notin DOMAIN s[CreatedCategory(sb.cmds[i])]

\* RebuildState has returned, every mutation succeeded, and a one-shot
\* command pool with its command buffer, a scratch buffer with its memory and
\* a temporary of a pipeline were created and destroyed on the way
C40_Witness ==
  /\ Returned /\ stack = <<>> /\ cur = NoCmd
  /\ AllMutated
  /\ \A cat \in {"CommandPools", "CommandBuffers", "Buffers", "DeviceMemories"} :
       \E i \in 1..Len(sb.cmds) : \E h \in sb.cmds[i].objs :
          CreatedCategory(sb.cmds[i]) = cat /\ TransientCreate(i, h)
  /\ \E i \in 1..Len(sb.cmds) : \E h \in sb.cmds[i].objs :
       sb.cmds[i].cat \in Temporaries /\ TransientCreate(i, h)

====
